---- MODULE Spec2Model ----
(***************************************************************************)
(* A model of the type inference engine of src/rustc/middle/typeck/infer.rs *)
(* (variable store with redirects and bounds, the journal with try/commit,  *)
(* the sub/lub/glb combiners, assignment with borrowing, and the resolver). *)
(*                                                                          *)
(* Types and regions are tuples whose first element names the constructor:  *)
(*   <<"bot">> <<"int">> <<"bool">> <<"var", id>> <<"box", mutbl, ty>>      *)
(*   <<"uniq", mutbl, ty>> <<"vec", mutbl, ty>> <<"rptr", region, mutbl,    *)
(*   ty>> <<"tup", <<ty, ...>> >>                                           *)
(*   <<"static">> <<"scope", id>> <<"free", id, name>> <<"bound", name>>    *)
(*   <<"rvar", id>>                                                         *)
(* Every operation of the engine that reads or writes the inference context *)
(* takes the context record and returns a result record holding the context *)
(* it leaves behind.                                                        *)
(***************************************************************************)
EXTENDS Integers, Sequences, FiniteSets, TLC

VARIABLES
    vb,                 \* infer_ctxt.vb: [vals, bindings] for type variables
    rb,                 \* infer_ctxt.rb: [vals, bindings] for region variables
    ty_var_counter,     \* infer_ctxt.ty_var_counter
    region_var_counter, \* infer_ctxt.region_var_counter
    borrowings,         \* tcx.borrowings: set of <<expr_id, borrow_scope>>
    last,               \* the last top-level call: its name and its result
    nops,               \* the number of top-level calls made so far
    hist                \* the calls made so far with their arguments, oldest
                        \* first (kept by the specifications that record it)

vars == <<vb, rb, ty_var_counter, region_var_counter, borrowings, last, nops, hist>>

-----------------------------------------------------------------------------
(* Bounds of the model *)

\* number of type variable ids a session may allocate
NumTyVars == 2
\* number of region variable ids a session may allocate
NumRegionVars == 1
\* number of top-level calls in a session
MaxOps == 2
\* number of top-level calls in a session whose history is recorded
MaxHist == 2
\* depth of the recursion of the combiners (tys, regions) beyond which the
\* model treats a call as not returning
MaxDepth == 5

-----------------------------------------------------------------------------
(* Data model *)

None == <<"none">>
Some(t) == <<"some", t>>
IsSome(o) == o[1] = "some"
Unwrap(o) == o[2]

Redirect(v) == <<"redirect", v>>
Bounded(bnds) == <<"bounded", bnds>>
Absent == <<"absent">>
MkBounds(lb, ub) == [lb |-> lb, ub |-> ub]
EmptyBounds == MkBounds(None, None)

TBot == <<"bot">>
TInt == <<"int">>
TBool == <<"bool">>
TI32 == <<"i32">>
TVar(i) == <<"var", i>>
TBox(m, t) == <<"box", m, t>>
TUniq(m, t) == <<"uniq", m, t>>
TVec(m, t) == <<"vec", m, t>>
TRptr(r, m, t) == <<"rptr", r, m, t>>
TTup(ts) == <<"tup", ts>>
TStr == <<"str">>
TEstr(vs) == <<"estr", vs>>
TEvec(m, t, vs) == <<"evec", m, t, vs>>
TFn(proto, inputs, output, ret_style, constraints) ==
    <<"fn", proto, inputs, output, ret_style, constraints>>
Arg(mode, t) == [mode |-> mode, ty |-> t]
\* ty::substs: the region of self, the type of self and the type parameters
Substs(self_r, self_ty, tps) == [self_r |-> self_r, self_ty |-> self_ty, tps |-> tps]
TEnum(id, substs) == <<"enum", id, substs>>
TIface(id, substs) == <<"iface", id, substs>>
TClass(id, substs) == <<"class", id, substs>>
TRes(id, t, substs) == <<"res", id, t, substs>>

VstoreFixed(n) == <<"fixed", n>>
VstoreUniq == <<"vs_uniq">>
VstoreBox == <<"vs_box">>
VstoreSlice(r) == <<"slice", r>>

ReStatic == <<"static">>
ReScope(i) == <<"scope", i>>
ReFree(i, n) == <<"free", i, n>>
ReBound(n) == <<"bound", n>>
ReVar(i) == <<"rvar", i>>

Kind(t) == t[1]
IsVar(t) == Kind(t) = "var" \/ Kind(t) = "rvar"
Mt(m, t) == [mutbl |-> m, ty |-> t]

\* new_infer_ctxt: both stores empty, both journals empty
NewVb(n) == [vals |-> [i \in 0..(n - 1) |-> Absent], bindings |-> <<>>]

\* results: st is "ok", "err" (a type_err in val), "bug" (sess.bug or a failed
\* assert: the call aborts) or "div" (the recursion went deeper
\* than MaxDepth: the call does not return)
Ok(v, s) == [st |-> "ok", val |-> v, s |-> s]
Err(e, s) == [st |-> "err", val |-> e, s |-> s]
Bug(s) == [st |-> "bug", val |-> "bug", s |-> s]
Div(s) == [st |-> "div", val |-> "div", s |-> s]
IsOk(r) == r.st = "ok"

\* result.chain / ures.then: run f on success, pass a failure through
Chain(r, F(_)) == IF r.st = "ok" THEN F(r) ELSE r

\* r.chain {|v| ok(some(v))}
ChainSome(r) == [r EXCEPT !.val = IF r.st = "ok" THEN Some(@) ELSE @]

\* r.chain {|_x| ok(v)}: a success of r with the value v in place of its own
WithVal(r, v) == [r EXCEPT !.val = IF r.st = "ok" THEN v ELSE @]

-----------------------------------------------------------------------------
(* unify_methods: set, get *)

\* set: push (vid, old value) on the journal, then write the new value
SetVar(s, k, vid, new_v) ==
    LET old_v == s[k].vals[vid]
    IN [s EXCEPT ![k] = [vals |-> [s[k].vals EXCEPT ![vid] = new_v],
                         bindings |-> Append(s[k].bindings, <<vid, old_v>>)]]

\* get: follow redirects to the root. An absent entry is inserted (not
\* journalled). In the redirect arm the pattern variable shadows the
\* parameter, so the entry rewritten is the one the redirect points to, and
\* the write goes straight to vals (not journalled).
RECURSIVE GetVals(_, _)
GetVals(vals, vid) ==
    LET v == vals[vid] IN
    CASE v = Absent ->
           [root |-> vid, bounds |-> EmptyBounds,
            vals |-> [vals EXCEPT ![vid] = Bounded(EmptyBounds)]]
      [] v[1] = "redirect" ->
           LET inner == v[2]
               r == GetVals(vals, inner)
           IN [root |-> r.root, bounds |-> r.bounds,
               vals |-> IF r.root # inner
                        THEN [r.vals EXCEPT ![inner] = Redirect(r.root)]
                        ELSE r.vals]
      [] OTHER ->
           [root |-> vid, bounds |-> v[2], vals |-> vals]

Get(s, k, vid) ==
    LET g == GetVals(s[k].vals, vid)
    IN [root |-> g.root, bounds |-> g.bounds,
        s |-> [s EXCEPT ![k].vals = g.vals]]

-----------------------------------------------------------------------------
(* infer_ctxt methods: try, commit *)

\* a rollback that shortens the journal and restores no value
RollbackKeepingValues(b, len) ==
    IF Len(b.bindings) <= len THEN b
    ELSE [vals |-> b.vals, bindings |-> SubSeq(b.bindings, 1, len)]

RECURSIVE RollbackTo(_, _)
RollbackTo(b, len) ==
    IF Len(b.bindings) <= len THEN b
    ELSE LET e == b.bindings[Len(b.bindings)]
         IN RollbackTo([vals |-> [b.vals EXCEPT ![e[1]] = e[2]],
                        bindings |-> SubSeq(b.bindings, 1, Len(b.bindings) - 1)],
                       len)

Try(s, F(_)) ==
    LET vbl == Len(s.vb.bindings)
        rbl == Len(s.rb.bindings)
        r == F(s)
    IN IF r.st = "err"
       THEN [r EXCEPT !.s = [r.s EXCEPT !.vb = RollbackTo(r.s.vb, vbl),
                                        !.rb = RollbackTo(r.s.rb, rbl)]]
       ELSE r

\* a commit that forgets the region journal
ClearBindingsOfTypesOnly(s) == [s EXCEPT !.vb.bindings = <<>>]

\* self.vb.bindings = []; self.rb.bindings = [];
ClearBindings(s) == [s EXCEPT !.vb.bindings = <<>>, !.rb.bindings = <<>>]

\* commit: the two asserts, try, then both journals are cleared
Commit(s, F(_)) ==
    IF Len(s.vb.bindings) # 0 \/ Len(s.rb.bindings) # 0 THEN Bug(s)
    ELSE LET r == Try(s, F)
         IN IF r.st \in {"ok", "err"}
            THEN [r EXCEPT !.s = ClearBindings(r.s)]
            ELSE r

-----------------------------------------------------------------------------
(* External collaborators: the type context and the region oracle *)

\* ty::mach_sty: int is the target's machine integer
MachSty(t) == IF t = TInt THEN TI32 ELSE t

\* the region map: the parent of each scope (-1: none). Scope 1 and scope 3
\* are blocks inside scope 0; scope 2 belongs to another tree.
ScopeParent == <<-1, 0, -1, 0>>
Parent(i) == ScopeParent[i + 1]
Scopes == 0..(Len(ScopeParent) - 1)

RECURSIVE AncestorsOf(_)
AncestorsOf(i) == IF Parent(i) = -1 THEN {i} ELSE {i} \cup AncestorsOf(Parent(i))

\* region::nearest_common_ancestor: the deepest scope enclosing both, if any
RECURSIVE NearestCommonAncestor(_, _)
NearestCommonAncestor(a, b) ==
    IF a \in AncestorsOf(b) THEN Some(a)
    ELSE IF Parent(a) = -1 THEN None
    ELSE NearestCommonAncestor(Parent(a), b)

-----------------------------------------------------------------------------
(* The combiners sub, lub, glb over the two stores "vb" and "rb".  The arms  *)
(* of a CASE are tried in the order written, as the arms of the source's    *)
(* alt are.                                                                 *)

\* the iface st: a.sub(b), a.lub(b), a.glb(b) for a type (k = "vb") or a
\* region (k = "rb"); defined below, after the combiners it dispatches to
RECURSIVE Call(_, _)

\* C.tys(a, b) and C.regions(a, b) for the combiner C
Tys(C, s, a, b) == Call("St", <<C, s, "vb", a, b>>)
Regions(C, s, a, b) == Call("St", <<C, s, "rb", a, b>>)

\* sub_tys / sub_regions: the value is dropped
SubTysU(s, a, b) == WithVal(Call("St", <<"sub", s, "vb", a, b>>), "unit")
SubRegionsU(s, a, b) == WithVal(Call("St", <<"sub", s, "rb", a, b>>), "unit")

\* eq_tys that relates its arguments one way only
EqTysOneWay(s, a, b) == SubTysU(s, a, b)

\* eq_tys: sub_tys(a, b).then {|| sub_tys(b, a)}
EqTys(s, a, b) ==
    LET r == SubTysU(s, a, b) IN IF r.st = "ok" THEN SubTysU(r.s, b, a) ELSE r

EqRegions(s, a, b) ==
    LET r == SubRegionsU(s, a, b) IN IF r.st = "ok" THEN SubRegionsU(r.s, b, a) ELSE r

\* merge_bnd whose (none, some) arm returns the absent bound
MergeBndLosingNew(s, k, a, b, C) ==
    CASE ~IsSome(a) /\ ~IsSome(b) -> Ok(None, s)
      [] IsSome(a) /\ ~IsSome(b) -> Ok(a, s)
      [] ~IsSome(a) /\ IsSome(b) -> Ok(a, s)
      [] OTHER -> ChainSome(Call("St", <<C, s, k, Unwrap(a), Unwrap(b)>>))

MergeBnd(s, k, a, b, C) ==
    CASE ~IsSome(a) /\ ~IsSome(b) -> Ok(None, s)
      [] IsSome(a) /\ ~IsSome(b) -> Ok(a, s)
      [] ~IsSome(a) /\ IsSome(b) -> Ok(b, s)
      [] OTHER -> ChainSome(Call("St", <<C, s, k, Unwrap(a), Unwrap(b)>>))

Bnds(s, k, a, b) ==
    IF IsSome(a) /\ IsSome(b)
    THEN WithVal(Call("St", <<"sub", s, k, Unwrap(a), Unwrap(b)>>), "unit")
    ELSE Ok("unit", s)

\* a set_var_to_merged_bounds without the two cross relations
SetVarToMergedBoundsUncrossed(s, k, v_id, a, b) ==
    LET ub == MergeBnd(s, k, a.ub, b.ub, "glb")
        lb == MergeBnd(ub.s, k, a.lb, b.lb, "lub")
        r5 == Bnds(lb.s, k, lb.val, ub.val)
    IN CASE ub.st # "ok" -> ub
         [] lb.st # "ok" -> lb
         [] r5.st # "ok" -> r5
         [] OTHER -> Ok("unit", SetVar(r5.s, k, v_id, Bounded(MkBounds(lb.val, ub.val))))

SetVarToMergedBounds(s, k, v_id, a, b) ==
    LET r1 == Bnds(s, k, a.lb, b.ub)
        r2 == Bnds(r1.s, k, b.lb, a.ub)
        ub == MergeBnd(r2.s, k, a.ub, b.ub, "glb")
        lb == MergeBnd(ub.s, k, a.lb, b.lb, "lub")
        r5 == Bnds(lb.s, k, lb.val, ub.val)
    IN CASE r1.st # "ok" -> r1
         [] r2.st # "ok" -> r2
         [] ub.st # "ok" -> ub
         [] lb.st # "ok" -> lb
         [] r5.st # "ok" -> r5
         [] OTHER -> Ok("unit", SetVar(r5.s, k, v_id, Bounded(MkBounds(lb.val, ub.val))))

\* a merge that leaves b a root of its own
VarsMergeWithoutRedirect(s, k, a_id, a_bounds, b_id, b_bounds) ==
    Call("SetVarToMergedBounds", <<s, k, a_id, a_bounds, b_bounds>>)

\* a merge that redirects a to b and gives b the merged bounds
VarsMergeIntoB(s, k, a_id, a_bounds, b_id, b_bounds) ==
    Call("SetVarToMergedBounds", <<SetVar(s, k, a_id, Redirect(b_id)),
                         k, b_id, a_bounds, b_bounds>>)

\* the merge step of vars: b redirects to a, a takes the merged bounds
\* a merge that ends by redirecting a to b as well
VarsMergeBothWays(s, k, a_id, a_bounds, b_id, b_bounds) ==
    LET r == Call("SetVarToMergedBounds", <<SetVar(s, k, b_id, Redirect(a_id)),
                                            k, a_id, a_bounds, b_bounds>>)
    IN IF r.st = "ok" THEN Ok("unit", SetVar(r.s, k, a_id, Redirect(b_id))) ELSE r

VarsMerge(s, k, a_id, a_bounds, b_id, b_bounds) ==
    Call("SetVarToMergedBounds", <<SetVar(s, k, b_id, Redirect(a_id)),
                         k, a_id, a_bounds, b_bounds>>)

\* a vars that merges without trying ub(a) <: lb(b) first
VarsWithoutShortcut(s, k, a_id0, b_id0) ==
    LET ga == Get(s, k, a_id0)
        gb == Get(ga.s, k, b_id0)
    IN IF ga.root = gb.root THEN Ok("unit", gb.s)
       ELSE VarsMerge(gb.s, k, ga.root, ga.bounds, gb.root, gb.bounds)

\* a vars that writes the bounds of the root back when both variables
\* already share it
VarsRewritingSameRoot(s, k, a_id0, b_id0) ==
    LET ga == Get(s, k, a_id0)
        gb == Get(ga.s, k, b_id0)
        a_id == ga.root
        b_id == gb.root
        a_bounds == ga.bounds
        b_bounds == gb.bounds
    IN IF a_id = b_id THEN Ok("unit", SetVar(gb.s, k, a_id, Bounded(a_bounds)))
       ELSE IF IsSome(a_bounds.ub) /\ IsSome(b_bounds.lb)
       THEN LET r == Try(gb.s, LAMBDA x:
                         WithVal(Call("St", <<"sub", x, k, Unwrap(a_bounds.ub), Unwrap(b_bounds.lb)>>), "unit"))
            IN IF r.st = "err"
               THEN VarsMerge(r.s, k, a_id, a_bounds, b_id, b_bounds)
               ELSE r
       ELSE VarsMerge(gb.s, k, a_id, a_bounds, b_id, b_bounds)

Vars(s, k, a_id0, b_id0) ==
    LET ga == Get(s, k, a_id0)
        gb == Get(ga.s, k, b_id0)
        a_id == ga.root
        b_id == gb.root
        a_bounds == ga.bounds
        b_bounds == gb.bounds
    IN IF a_id = b_id THEN Ok("unit", gb.s)
       ELSE IF IsSome(a_bounds.ub) /\ IsSome(b_bounds.lb)
       THEN LET r == Try(gb.s, LAMBDA x:
                         WithVal(Call("St", <<"sub", x, k, Unwrap(a_bounds.ub), Unwrap(b_bounds.lb)>>), "unit"))
            IN IF r.st = "err"
               THEN VarsMerge(r.s, k, a_id, a_bounds, b_id, b_bounds)
               ELSE r
       ELSE VarsMerge(gb.s, k, a_id, a_bounds, b_id, b_bounds)

Vart(s, k, a_id0, b) ==
    LET g == Get(s, k, a_id0)
    IN Call("SetVarToMergedBounds", <<g.s, k, g.root, g.bounds, MkBounds(None, Some(b))>>)

Tvar(s, k, a, b_id0) ==
    LET g == Get(s, k, b_id0)
    IN Call("SetVarToMergedBounds", <<g.s, k, g.root, MkBounds(Some(a), None), g.bounds>>)

ContraTys(C, s, a, b) ==
    CASE C = "sub" -> Tys("sub", s, b, a)
      [] C = "lub" -> Tys("glb", s, a, b)
      [] OTHER -> Tys("lub", s, a, b)

ContraRegions(C, s, a, b) ==
    CASE C = "sub" -> Regions("sub", s, b, a)
      [] C = "lub" -> Regions("glb", s, a, b)
      [] OTHER -> Regions("lub", s, a, b)

\* a sub::mts that is covariant under mut as well
SubMtsCovariant(s, a, b) ==
    IF a.mutbl # b.mutbl /\ b.mutbl # "const" THEN Err("mutability", s)
    ELSE WithVal(Tys("sub", s, a.ty, b.ty), a)

SubMts(s, a, b) ==
    IF a.mutbl # b.mutbl /\ b.mutbl # "const" THEN Err("mutability", s)
    ELSE IF b.mutbl = "mut"
    THEN WithVal(Call("EqTys", <<s, a.ty, b.ty>>), a)
    ELSE WithVal(Tys("sub", s, a.ty, b.ty), a)

\* a lub::mts whose attempt at equality is not run under try
LubMtsUntried(s, a, b) ==
    LET m == IF a.mutbl = b.mutbl THEN a.mutbl ELSE "const"
    IN IF m # "mut"
       THEN Chain(Tys("lub", s, a.ty, b.ty), LAMBDA r: Ok(Mt(m, r.val), r.s))
       ELSE LET e == WithVal(Call("EqTys", <<s, a.ty, b.ty>>), Mt(m, a.ty))
            IN IF e.st = "err"
               THEN Chain(Tys("lub", e.s, a.ty, b.ty),
                          LAMBDA r: Ok(Mt("const", r.val), r.s))
               ELSE e

LubMts(s, a, b) ==
    LET m == IF a.mutbl = b.mutbl THEN a.mutbl ELSE "const"
    IN IF m # "mut"
       THEN Chain(Tys("lub", s, a.ty, b.ty), LAMBDA r: Ok(Mt(m, r.val), r.s))
       ELSE LET e == Try(s, LAMBDA x:
                         WithVal(Call("EqTys", <<x, a.ty, b.ty>>), Mt(m, a.ty)))
            IN IF e.st = "err"
               THEN Chain(Tys("lub", e.s, a.ty, b.ty),
                          LAMBDA r: Ok(Mt("const", r.val), r.s))
               ELSE e

\* a glb::mts whose (mut, const) arm relates the pointees the other way
GlbMtsReversed(s, a, b) ==
    CASE a.mutbl = "mut" /\ b.mutbl = "const" ->
           WithVal(Tys("sub", s, b.ty, a.ty), Mt("mut", a.ty))
      [] a.mutbl = "const" /\ b.mutbl = "mut" ->
           WithVal(Tys("sub", s, b.ty, a.ty), Mt("mut", b.ty))
      [] a.mutbl = "mut" /\ b.mutbl = "mut" ->
           WithVal(Call("EqTys", <<s, a.ty, b.ty>>), Mt("mut", a.ty))
      [] a.mutbl = "const" /\ b.mutbl = "const" ->
           Chain(Tys("glb", s, a.ty, b.ty), LAMBDA r: Ok(Mt("const", r.val), r.s))
      [] a.mutbl # "mut" /\ b.mutbl # "mut" /\ "imm" \in {a.mutbl, b.mutbl} ->
           Chain(Tys("glb", s, a.ty, b.ty), LAMBDA r: Ok(Mt("imm", r.val), r.s))
      [] OTHER -> Err("mutability", s)

GlbMts(s, a, b) ==
    CASE a.mutbl = "mut" /\ b.mutbl = "const" ->
           WithVal(Tys("sub", s, a.ty, b.ty), Mt("mut", a.ty))
      [] a.mutbl = "const" /\ b.mutbl = "mut" ->
           WithVal(Tys("sub", s, b.ty, a.ty), Mt("mut", b.ty))
      [] a.mutbl = "mut" /\ b.mutbl = "mut" ->
           WithVal(Call("EqTys", <<s, a.ty, b.ty>>), Mt("mut", a.ty))
      [] a.mutbl = "const" /\ b.mutbl = "const" ->
           Chain(Tys("glb", s, a.ty, b.ty), LAMBDA r: Ok(Mt("const", r.val), r.s))
      [] a.mutbl # "mut" /\ b.mutbl # "mut" /\ "imm" \in {a.mutbl, b.mutbl} ->
           Chain(Tys("glb", s, a.ty, b.ty), LAMBDA r: Ok(Mt("imm", r.val), r.s))
      [] OTHER -> Err("mutability", s)

\* mts that relates the pointee types and never looks at the mutability
MtsIgnoringMutability(C, s, a, b) ==
    Chain(Tys(C, s, a.ty, b.ty), LAMBDA r: Ok(Mt(a.mutbl, r.val), r.s))

\* self.mts(a, b) of the combiner C
Mts(C, s, a, b) ==
    CASE C = "sub" -> SubMts(s, a, b)
      [] C = "lub" -> LubMts(s, a, b)
      [] OTHER -> GlbMts(s, a, b)

\* map2(as, bs) {|a, b| self.tys(a, b)}: left to right, stopping at the
\* first failure
Map2Tys(C, s, as, bs, acc) ==
    IF Len(acc) = Len(as) THEN Ok(acc, s)
    ELSE LET i == Len(acc) + 1
             r == Tys(C, s, as[i], bs[i])
         IN IF IsOk(r) THEN Call("Map2Tys", <<C, r.s, as, bs, Append(acc, r.val)>>) ELSE r

SuperVstores(C, s, a, b) ==
    CASE Kind(a) = "slice" /\ Kind(b) = "slice" ->
           Chain(ContraRegions(C, s, a[2], b[2]), LAMBDA r: Ok(VstoreSlice(r.val), r.s))
      [] a = b -> Ok(a, s)
      [] OTHER -> Err("vstores_differ", s)

\* cres<T>.compare(t, f): the result when it is ok(t), the error f otherwise
Compare(r, t, e) == IF IsOk(r) /\ r.val # t THEN Err(e, r.s) ELSE r

LubProtos(s, p1, p2) ==
    IF p1 = "proto_bare" THEN Ok(p2, s)
    ELSE IF p2 = "proto_bare" THEN Ok(p1, s)
    ELSE IF p1 = p2 THEN Ok(p1, s)
    ELSE Ok("proto_any", s)

GlbProtos(s, p1, p2) ==
    IF p1 = "proto_any" THEN Ok(p2, s)
    ELSE IF p2 = "proto_any" THEN Ok(p1, s)
    ELSE IF p1 = p2 THEN Ok(p1, s)
    ELSE Ok("proto_bare", s)

\* self.protos(a, b) of the combiner C
Protos(C, s, a, b) ==
    CASE C = "sub" -> Compare(LubProtos(s, a, b), b, "proto_mismatch")
      [] C = "lub" -> LubProtos(s, a, b)
      [] OTHER -> GlbProtos(s, a, b)

LubRetStyles(s, r1, r2) ==
    IF r1 = "return_val" \/ r2 = "return_val" THEN Ok("return_val", s)
    ELSE Ok("noreturn", s)

GlbRetStyles(s, r1, r2) ==
    IF r1 = "return_val" /\ r2 = "return_val" THEN Ok("return_val", s)
    ELSE Ok("noreturn", s)

\* self.ret_styles(a, b) of the combiner C
RetStyles(C, s, a, b) ==
    CASE C = "sub" -> Compare(LubRetStyles(s, a, b), b, "ret_style_mismatch")
      [] C = "lub" -> LubRetStyles(s, a, b)
      [] OTHER -> GlbRetStyles(s, a, b)

\* ty::unify_mode on modes that are not inferred
UnifyMode(s, a, b) == IF a = b THEN Ok(a, s) ELSE Err("mode_mismatch", s)

SuperModes(C, s, a, b) == UnifyMode(s, a, b)

SuperArgs(C, s, a, b) ==
    Chain(SuperModes(C, s, a.mode, b.mode), LAMBDA m:
    Chain(ContraTys(C, m.s, a.ty, b.ty), LAMBDA t:
        Ok(Arg(m.val, t.val), t.s)))

RECURSIVE Map2Args(_, _, _, _, _)
\* map2(a_args, b_args) {|a, b| self.args(a, b)}
Map2Args(C, s, as, bs, acc) ==
    IF Len(acc) = Len(as) THEN Ok(acc, s)
    ELSE LET i == Len(acc) + 1
             r == SuperArgs(C, s, as[i], bs[i])
         IN IF IsOk(r) THEN Map2Args(C, r.s, as, bs, Append(acc, r.val)) ELSE r

Argvecs(C, s, a_args, b_args) ==
    IF Len(a_args) = Len(b_args)
    THEN Map2Args(C, s, a_args, b_args, <<>>)
    ELSE Err("arg_count", s)

RECURSIVE Iter2EqTys(_, _, _, _)
\* iter2(as, bs) {|a, b| self.infcx().eq_tys(a, b)} from the i-th pair on
Iter2EqTys(s, as, bs, i) ==
    IF i > Len(as) THEN Ok("unit", s)
    ELSE LET r == Call("EqTys", <<s, as[i], bs[i]>>)
         IN IF IsOk(r) THEN Iter2EqTys(r.s, as, bs, i + 1) ELSE r

\* a super_tps that combines the parameters with the combiner
SuperTpsCombined(C, s, as, bs) ==
    IF Len(as) = Len(bs)
    THEN Call("Map2Tys", <<C, s, as, bs, <<>>>>)
    ELSE Err("ty_param_size", s)

SuperTps(C, s, as, bs) ==
    IF Len(as) = Len(bs)
    THEN Chain(Iter2EqTys(s, as, bs, 1), LAMBDA r: Ok(as, r.s))
    ELSE Err("ty_param_size", s)

SuperSelfTys(C, s, a, b) ==
    CASE ~IsSome(a) /\ ~IsSome(b) -> Ok(None, s)
      [] IsSome(a) /\ IsSome(b) ->
           Chain(Call("EqTys", <<s, Unwrap(a), Unwrap(b)>>), LAMBDA r: Ok(a, r.s))
      [] OTHER -> Err("self_substs", s)

\* super_substs: eq_opt_regions
EqOptRegions(s, a, b) ==
    CASE ~IsSome(a) /\ ~IsSome(b) -> Ok(None, s)
      [] IsSome(a) /\ IsSome(b) ->
           Chain(EqRegions(s, Unwrap(a), Unwrap(b)), LAMBDA r: Ok(a, r.s))
      [] OTHER -> Bug(s)

SuperSubsts(C, s, a, b) ==
    Chain(SuperTps(C, s, a.tps, b.tps), LAMBDA tps:
    Chain(SuperSelfTys(C, tps.s, a.self_ty, b.self_ty), LAMBDA self_ty:
    Chain(EqOptRegions(self_ty.s, a.self_r, b.self_r), LAMBDA self_r:
        Ok(Substs(self_r.val, self_ty.val, tps.val), self_r.s))))

\* a_f and b_f are <<"fn", proto, inputs, output, ret_style, constraints>>;
\* the constraints of the result are those of a_f, and the two lists are
\* not compared
SuperFns(C, s, a_f, b_f) ==
    Chain(Protos(C, s, a_f[2], b_f[2]), LAMBDA p:
    Chain(RetStyles(C, p.s, a_f[5], b_f[5]), LAMBDA rs:
    Chain(Argvecs(C, rs.s, a_f[3], b_f[3]), LAMBDA inputs:
    Chain(Tys(C, inputs.s, a_f[4], b_f[4]), LAMBDA output:
        Ok(TFn(p.val, inputs.val, output.val, rs.val, a_f[6]), output.s)))))

SuperTys(C, s, a, b) ==
    CASE Kind(a) \in {"bot", "var"} \/ Kind(b) \in {"bot", "var"} -> Bug(s)
      [] Kind(a) \in {"int", "bool", "i32", "str"} ->
           IF MachSty(a) = MachSty(b) THEN Ok(a, s) ELSE Err("sorts", s)
      [] Kind(a) \in {"enum", "iface", "class"} /\ Kind(b) = Kind(a) /\ a[2] = b[2] ->
           Chain(SuperSubsts(C, s, a[3], b[3]),
                 LAMBDA r: Ok(<<Kind(a), a[2], r.val>>, r.s))
      [] Kind(a) \in {"box", "uniq", "vec"} /\ Kind(b) = Kind(a) ->
           Chain(Call("Mts", <<C, s, Mt(a[2], a[3]), Mt(b[2], b[3])>>),
                 LAMBDA r: Ok(<<Kind(a), r.val.mutbl, r.val.ty>>, r.s))
      [] Kind(a) = "rptr" /\ Kind(b) = "rptr" ->
           Chain(ContraRegions(C, s, a[2], b[2]), LAMBDA r:
           Chain(Call("Mts", <<C, r.s, Mt(a[3], a[4]), Mt(b[3], b[4])>>), LAMBDA mt:
               Ok(TRptr(r.val, mt.val.mutbl, mt.val.ty), mt.s)))
      [] Kind(a) = "evec" /\ Kind(b) = "evec" ->
           Chain(Call("Mts", <<C, s, Mt(a[2], a[3]), Mt(b[2], b[3])>>), LAMBDA mt:
           Chain(SuperVstores(C, mt.s, a[4], b[4]), LAMBDA vs:
               Ok(TEvec(mt.val.mutbl, mt.val.ty, vs.val), vs.s)))
      [] Kind(a) = "estr" /\ Kind(b) = "estr" ->
           Chain(SuperVstores(C, s, a[2], b[2]), LAMBDA vs: Ok(TEstr(vs.val), vs.s))
      [] Kind(a) = "res" /\ Kind(b) = "res" /\ a[2] = b[2] ->
           Chain(Tys(C, s, a[3], b[3]), LAMBDA t:
           Chain(SuperSubsts(C, t.s, a[4], b[4]), LAMBDA substs:
               Ok(TRes(a[2], t.val, substs.val), substs.s)))
      [] Kind(a) = "tup" /\ Kind(b) = "tup" ->
           IF Len(a[2]) = Len(b[2])
           THEN Chain(Call("Map2Tys", <<C, s, a[2], b[2], <<>>>>), LAMBDA r: Ok(TTup(r.val), r.s))
           ELSE Err("tuple_size", s)
      [] Kind(a) = "fn" /\ Kind(b) = "fn" -> SuperFns(C, s, a, b)
      [] OTHER -> Err("sorts", s)

\* sub::tys without its arm for two variables: a variable below a variable
\* is treated as a variable below a type
SubTysWithoutVarVar(s, a, b) ==
    CASE a = b -> Ok(a, s)
      [] Kind(a) = "bot" -> Ok(a, s)
      [] Kind(a) = "var" -> WithVal(Vart(s, "vb", a[2], b), a)
      [] Kind(b) = "var" -> WithVal(Tvar(s, "vb", a, b[2]), a)
      [] Kind(b) = "bot" -> Err("sorts", s)
      [] OTHER -> Call("SuperTys", <<"sub", s, a, b>>)

SubTys(s, a, b) ==
    CASE a = b -> Ok(a, s)
      [] Kind(a) = "bot" -> Ok(a, s)
      [] Kind(a) = "var" /\ Kind(b) = "var" -> WithVal(Call("Vars", <<s, "vb", a[2], b[2]>>), a)
      [] Kind(a) = "var" -> WithVal(Vart(s, "vb", a[2], b), a)
      [] Kind(b) = "var" -> WithVal(Tvar(s, "vb", a, b[2]), a)
      [] Kind(b) = "bot" -> Err("sorts", s)
      [] OTHER -> Call("SuperTys", <<"sub", s, a, b>>)

\* lattice_ops: bnd, with_bnd, ty_bot
LBnd(C, b) == IF C = "lub" THEN b.ub ELSE b.lb
WithBnd(C, b, t) ==
    IF C = "lub" THEN [b EXCEPT !.ub = Some(t)] ELSE [b EXCEPT !.lb = Some(t)]
TyBot(C, s, t) == IF C = "lub" THEN Ok(t, s) ELSE Ok(TBot, s)

\* a lattice_vars that merges without combining the two bounds first
LatticeVarsMerging(C, s, k, a_t, a_vid0, b_vid0) ==
    LET ga == Get(s, k, a_vid0)
        gb == Get(ga.s, k, b_vid0)
    IN IF ga.root = gb.root THEN Ok(a_t, gb.s)
       ELSE WithVal(Call("Vars", <<gb.s, k, ga.root, gb.root>>), a_t)

LatticeVars(C, s, k, a_t, a_vid0, b_vid0) ==
    LET ga == Get(s, k, a_vid0)
        gb == Get(ga.s, k, b_vid0)
        a_bnd == LBnd(C, ga.bounds)
        b_bnd == LBnd(C, gb.bounds)
    IN IF ga.root = gb.root THEN Ok(a_t, gb.s)
       ELSE IF IsSome(a_bnd) /\ IsSome(b_bnd)
       THEN LET r == Try(gb.s, LAMBDA x: Call("St", <<C, x, k, Unwrap(a_bnd), Unwrap(b_bnd)>>))
            IN IF r.st = "err"
               THEN WithVal(Call("Vars", <<r.s, k, ga.root, gb.root>>), a_t)
               ELSE r
       ELSE WithVal(Call("Vars", <<gb.s, k, ga.root, gb.root>>), a_t)

\* a lattice_var_t that installs the bound without relating lb and ub
LatticeVarTUnchecked(C, s, k, a_id0, b) ==
    LET g == Get(s, k, a_id0)
        a_bnd == LBnd(C, g.bounds)
    IN IF IsSome(a_bnd) THEN Call("St", <<C, g.s, k, Unwrap(a_bnd), b>>)
       ELSE Ok(b, SetVar(g.s, k, g.root, Bounded(WithBnd(C, g.bounds, b))))

LatticeVarT(C, s, k, a_id0, b) ==
    LET g == Get(s, k, a_id0)
        a_bnd == LBnd(C, g.bounds)
    IN IF IsSome(a_bnd) THEN Call("St", <<C, g.s, k, Unwrap(a_bnd), b>>)
       ELSE LET a_bounds == WithBnd(C, g.bounds, b)
            IN Chain(Bnds(g.s, k, a_bounds.lb, a_bounds.ub), LAMBDA r:
                   Ok(b, SetVar(r.s, k, g.root, Bounded(a_bounds))))

LatticeTys(C, s, a, b) ==
    CASE a = b -> Ok(a, s)
      [] Kind(a) = "bot" -> TyBot(C, s, b)
      [] Kind(b) = "bot" -> TyBot(C, s, a)
      [] Kind(a) = "var" /\ Kind(b) = "var" -> Call("LatticeVars", <<C, s, "vb", a, a[2], b[2]>>)
      [] Kind(a) = "var" -> Call("LatticeVarT", <<C, s, "vb", a[2], b>>)
      [] Kind(b) = "var" -> Call("LatticeVarT", <<C, s, "vb", b[2], a>>)
      [] OTHER -> Call("SuperTys", <<C, s, a, b>>)

LatticeRvars(C, s, a, b) ==
    CASE Kind(a) = "rvar" /\ Kind(b) = "rvar" ->
           Call("LatticeVars", <<C, s, "rb", a, a[2], b[2]>>)
      [] Kind(a) = "rvar" -> Call("LatticeVarT", <<C, s, "rb", a[2], b>>)
      [] Kind(b) = "rvar" -> Call("LatticeVarT", <<C, s, "rb", b[2], a>>)
      [] OTHER -> Bug(s)

\* a lub::regions that answers the first scope for two scopes
LubRegionsFirstScope(s, a, b) ==
    CASE Kind(a) = "static" \/ Kind(b) = "static" -> Ok(ReStatic, s)
      [] Kind(a) = "rvar" \/ Kind(b) = "rvar" -> Call("LatticeRvars", <<"lub", s, a, b>>)
      [] Kind(a) = "free" /\ Kind(b) = "scope" ->
           IF NearestCommonAncestor(a[2], b[2]) = Some(a[2])
           THEN Ok(a, s) ELSE Ok(ReStatic, s)
      [] Kind(a) = "scope" /\ Kind(b) = "free" ->
           IF NearestCommonAncestor(b[2], a[2]) = Some(b[2])
           THEN Ok(b, s) ELSE Ok(ReStatic, s)
      [] Kind(a) = "scope" /\ Kind(b) = "scope" -> Ok(a, s)
      [] OTHER -> IF a = b THEN Ok(a, s) ELSE Ok(ReStatic, s)

LubRegions(s, a, b) ==
    CASE Kind(a) = "static" \/ Kind(b) = "static" -> Ok(ReStatic, s)
      [] Kind(a) = "rvar" \/ Kind(b) = "rvar" -> Call("LatticeRvars", <<"lub", s, a, b>>)
      [] Kind(a) = "free" /\ Kind(b) = "scope" ->
           IF NearestCommonAncestor(a[2], b[2]) = Some(a[2])
           THEN Ok(a, s) ELSE Ok(ReStatic, s)
      [] Kind(a) = "scope" /\ Kind(b) = "free" ->
           IF NearestCommonAncestor(b[2], a[2]) = Some(b[2])
           THEN Ok(b, s) ELSE Ok(ReStatic, s)
      [] Kind(a) = "scope" /\ Kind(b) = "scope" ->
           LET n == NearestCommonAncestor(a[2], b[2])
           IN IF IsSome(n) THEN Ok(ReScope(Unwrap(n)), s) ELSE Ok(ReStatic, s)
      [] OTHER -> IF a = b THEN Ok(a, s) ELSE Ok(ReStatic, s)

\* a glb::regions that answers the enclosing scope of two nested scopes
GlbRegionsEnclosing(s, a, b) ==
    CASE Kind(a) = "static" -> Ok(b, s)
      [] Kind(b) = "static" -> Ok(a, s)
      [] Kind(a) = "rvar" \/ Kind(b) = "rvar" -> Call("LatticeRvars", <<"glb", s, a, b>>)
      [] Kind(a) = "free" /\ Kind(b) = "scope" ->
           IF NearestCommonAncestor(a[2], b[2]) = Some(a[2])
           THEN Ok(b, s) ELSE Err("regions_differ", s)
      [] Kind(a) = "scope" /\ Kind(b) = "free" ->
           IF NearestCommonAncestor(b[2], a[2]) = Some(b[2])
           THEN Ok(a, s) ELSE Err("regions_differ", s)
      [] Kind(a) = "scope" /\ Kind(b) = "scope" ->
           LET n == NearestCommonAncestor(a[2], b[2])
           IN CASE n = Some(a[2]) -> Ok(a, s)
                [] n = Some(b[2]) -> Ok(b, s)
                [] OTHER -> Err("regions_differ", s)
      [] OTHER -> IF a = b THEN Ok(a, s) ELSE Err("regions_differ", s)

GlbRegions(s, a, b) ==
    CASE Kind(a) = "static" -> Ok(b, s)
      [] Kind(b) = "static" -> Ok(a, s)
      [] Kind(a) = "rvar" \/ Kind(b) = "rvar" -> Call("LatticeRvars", <<"glb", s, a, b>>)
      [] Kind(a) = "free" /\ Kind(b) = "scope" ->
           IF NearestCommonAncestor(a[2], b[2]) = Some(a[2])
           THEN Ok(b, s) ELSE Err("regions_differ", s)
      [] Kind(a) = "scope" /\ Kind(b) = "free" ->
           IF NearestCommonAncestor(b[2], a[2]) = Some(b[2])
           THEN Ok(a, s) ELSE Err("regions_differ", s)
      [] Kind(a) = "scope" /\ Kind(b) = "scope" ->
           LET n == NearestCommonAncestor(a[2], b[2])
           IN CASE n = Some(a[2]) -> Ok(b, s)
                [] n = Some(b[2]) -> Ok(a, s)
                [] OTHER -> Err("regions_differ", s)
      [] OTHER -> IF a = b THEN Ok(a, s) ELSE Err("regions_differ", s)

\* a sub::regions that compares the lub with a
SubRegionsComparingA(s, a, b) ==
    CASE Kind(a) = "rvar" /\ Kind(b) = "rvar" ->
           WithVal(Call("Vars", <<s, "rb", a[2], b[2]>>), a)
      [] Kind(a) = "rvar" ->
           WithVal(Vart(s, "rb", a[2], b), a)
      [] Kind(b) = "rvar" ->
           WithVal(Tvar(s, "rb", a, b[2]), a)
      [] OTHER ->
           Chain(LubRegions(s, a, b), LAMBDA r:
               IF r.val = a THEN r ELSE Err("regions_differ", r.s))

SubRegions(s, a, b) ==
    CASE Kind(a) = "rvar" /\ Kind(b) = "rvar" ->
           WithVal(Call("Vars", <<s, "rb", a[2], b[2]>>), a)
      [] Kind(a) = "rvar" ->
           WithVal(Vart(s, "rb", a[2], b), a)
      [] Kind(b) = "rvar" ->
           WithVal(Tvar(s, "rb", a, b[2]), a)
      [] OTHER ->
           Chain(LubRegions(s, a, b), LAMBDA r:
               IF r.val = b THEN r ELSE Err("regions_differ", r.s))

\* a call of a combiner's tys or regions is one level of recursion: depth is
\* the number of levels left, and is what it was when the call returns
St(C, s, k, a, b) ==
    IF s.depth = 0 THEN Div(s)
    ELSE [(CASE k = "vb" /\ C = "sub" -> SubTys([s EXCEPT !.depth = @ - 1], a, b)
             [] k = "vb" -> LatticeTys(C, [s EXCEPT !.depth = @ - 1], a, b)
             [] C = "sub" -> SubRegions([s EXCEPT !.depth = @ - 1], a, b)
             [] C = "lub" -> LubRegions([s EXCEPT !.depth = @ - 1], a, b)
             [] OTHER -> GlbRegions([s EXCEPT !.depth = @ - 1], a, b))
          EXCEPT !.s.depth = s.depth]


-----------------------------------------------------------------------------
(* Type assignment *)

Select(fst, snd) == IF IsSome(fst) THEN fst ELSE snd

\* a crosspollinate that leaves the borrowings map alone
CrosspollinateUnrecorded(s, anmnt, a, nr_b, r_b) ==
    Chain(SubTysU(s, a, nr_b), LAMBDA r1:
        WithVal(ContraRegions("sub", r1.s, ReScope(anmnt.borrow_scope), r_b), "unit"))

\* a crosspollinate that records the borrowing before the region requirement
CrosspollinateRecordingFirst(s, anmnt, a, nr_b, r_b) ==
    Chain(SubTysU(s, a, nr_b), LAMBDA r1:
    Chain(ContraRegions("sub",
                        [r1.s EXCEPT !.bor =
                            {p \in @ : p[1] # anmnt.expr_id}
                                \cup {<<anmnt.expr_id, anmnt.borrow_scope>>}],
                        ReScope(anmnt.borrow_scope), r_b), LAMBDA r2:
        Ok("unit", r2.s)))

Crosspollinate(s, anmnt, a, nr_b, r_b) ==
    Chain(SubTysU(s, a, nr_b), LAMBDA r1:
    Chain(ContraRegions("sub", r1.s, ReScope(anmnt.borrow_scope), r_b), LAMBDA r2:
        Ok("unit", [r2.s EXCEPT !.bor =
                        {p \in @ : p[1] # anmnt.expr_id}
                            \cup {<<anmnt.expr_id, anmnt.borrow_scope>>}])))

\* an is_borrowable that accepts every vstore, slices included
IsBorrowableAlways(v) == TRUE

\* is_borrowable
IsBorrowable(v) == Kind(v) \in {"fixed", "vs_uniq", "vs_box"}

AssignTysOrSub(s, anmnt, a, b, a_bnd, b_bnd) ==
    IF IsSome(a_bnd) /\ IsSome(b_bnd)
    THEN LET ta == Unwrap(a_bnd)
             tb == Unwrap(b_bnd)
         IN CASE Kind(ta) = "box" /\ Kind(tb) = "rptr" ->
                   Call("Crosspollinate", <<s, anmnt, a, TBox(tb[3], tb[4]), tb[2]>>)
              [] Kind(ta) = "uniq" /\ Kind(tb) = "rptr" ->
                   Call("Crosspollinate", <<s, anmnt, a, TUniq(tb[3], tb[4]), tb[2]>>)
              [] Kind(ta) = "estr" /\ Kind(tb) = "estr" /\ Kind(tb[2]) = "slice"
                     /\ IsBorrowable(ta[2]) ->
                   Call("Crosspollinate", <<s, anmnt, a, TEstr(ta[2]), tb[2][2]>>)
              [] Kind(ta) = "str" /\ Kind(tb) = "estr" /\ Kind(tb[2]) = "slice" ->
                   Call("Crosspollinate", <<s, anmnt, a, TStr, tb[2][2]>>)
              [] Kind(ta) = "evec" /\ Kind(tb) = "evec" /\ Kind(tb[4]) = "slice"
                     /\ IsBorrowable(ta[4]) ->
                   Call("Crosspollinate", <<s, anmnt, a, TEvec(tb[2], tb[3], ta[4]), tb[4][2]>>)
              [] Kind(ta) = "vec" /\ Kind(tb) = "evec" /\ Kind(tb[4]) = "slice" ->
                   Call("Crosspollinate", <<s, anmnt, a, TVec(tb[2], tb[3]), tb[4][2]>>)
              [] OTHER -> SubTysU(s, a, b)
    ELSE SubTysU(s, a, b)

AssignTys(s, anmnt, a, b) ==
    CASE Kind(a) = "bot" -> Ok("unit", s)
      [] Kind(a) = "var" /\ Kind(b) = "var" ->
           LET ga == Get(s, "vb", a[2])
               gb == Get(ga.s, "vb", b[2])
           IN Call("AssignTysOrSub", <<gb.s, anmnt, a, b,
                             Select(ga.bounds.ub, ga.bounds.lb),
                             Select(gb.bounds.lb, gb.bounds.ub)>>)
      [] Kind(a) = "var" ->
           LET ga == Get(s, "vb", a[2])
           IN Call("AssignTysOrSub", <<ga.s, anmnt, a, b,
                             Select(ga.bounds.ub, ga.bounds.lb), Some(b)>>)
      [] Kind(b) = "var" ->
           LET gb == Get(s, "vb", b[2])
           IN Call("AssignTysOrSub", <<gb.s, anmnt, a, b,
                             Some(a), Select(gb.bounds.lb, gb.bounds.ub)>>)
      [] OTHER -> Call("AssignTysOrSub", <<s, anmnt, a, b, Some(a), Some(b)>>)

\* a call of a method that can be entered again while it runs goes
\* through this one operator
Call(f, x) ==
    CASE f = "St" -> St(x[1], x[2], x[3], x[4], x[5])
      [] f = "Map2Tys" -> Map2Tys(x[1], x[2], x[3], x[4], x[5])
      [] f = "SetVarToMergedBounds" -> SetVarToMergedBounds(x[1], x[2], x[3], x[4], x[5])
      [] f = "Mts" -> Mts(x[1], x[2], x[3], x[4])
      [] f = "Vars" -> Vars(x[1], x[2], x[3], x[4])
      [] f = "LatticeVars" -> LatticeVars(x[1], x[2], x[3], x[4], x[5], x[6])
      [] f = "AssignTys" -> AssignTys(x[1], x[2], x[3], x[4])
      [] f = "AssignTysOrSub" -> AssignTysOrSub(x[1], x[2], x[3], x[4], x[5], x[6])
      [] f = "Crosspollinate" -> Crosspollinate(x[1], x[2], x[3], x[4], x[5])
      [] f = "SuperTys" -> SuperTys(x[1], x[2], x[3], x[4])
      [] f = "LatticeVarT" -> LatticeVarT(x[1], x[2], x[3], x[4], x[5])
      [] f = "LatticeRvars" -> LatticeRvars(x[1], x[2], x[3], x[4])
      [] f = "EqTys" -> EqTys(x[1], x[2], x[3])

-----------------------------------------------------------------------------
(* Resolution *)

\* the types of a substitution: the type parameters, then the type of self
SubstsTys(ss) == ss.tps \o (IF IsSome(ss.self_ty) THEN <<Unwrap(ss.self_ty)>> ELSE <<>>)
\* the region of self of a substitution
SubstsRegions(ss) == IF IsSome(ss.self_r) THEN {Unwrap(ss.self_r)} ELSE {}

RECURSIVE TyVarsIn(_)
RECURSIVE SeqTyVarsIn(_)
\* the type variables that occur in a type
TyVarsIn(t) ==
    CASE Kind(t) = "var" -> {t[2]}
      [] Kind(t) \in {"box", "uniq", "vec", "evec"} -> TyVarsIn(t[3])
      [] Kind(t) = "rptr" -> TyVarsIn(t[4])
      [] Kind(t) = "tup" -> SeqTyVarsIn(t[2])
      [] Kind(t) = "fn" ->
           SeqTyVarsIn([i \in 1..Len(t[3]) |-> t[3][i].ty]) \cup TyVarsIn(t[4])
      [] Kind(t) \in {"enum", "iface", "class"} -> SeqTyVarsIn(SubstsTys(t[3]))
      [] Kind(t) = "res" -> TyVarsIn(t[3]) \cup SeqTyVarsIn(SubstsTys(t[4]))
      [] OTHER -> {}
SeqTyVarsIn(ts) ==
    IF ts = <<>> THEN {} ELSE TyVarsIn(Head(ts)) \cup SeqTyVarsIn(Tail(ts))

RECURSIVE RegionsIn(_)
RECURSIVE SeqRegionsIn(_)
\* the regions that occur in a type
RegionsIn(t) ==
    CASE Kind(t) \in {"box", "uniq", "vec"} -> RegionsIn(t[3])
      [] Kind(t) = "rptr" -> {t[2]} \cup RegionsIn(t[4])
      [] Kind(t) = "evec" ->
           (IF Kind(t[4]) = "slice" THEN {t[4][2]} ELSE {}) \cup RegionsIn(t[3])
      [] Kind(t) = "estr" -> IF Kind(t[2]) = "slice" THEN {t[2][2]} ELSE {}
      [] Kind(t) = "tup" -> SeqRegionsIn(t[2])
      [] Kind(t) = "fn" ->
           SeqRegionsIn([i \in 1..Len(t[3]) |-> t[3][i].ty]) \cup RegionsIn(t[4])
      [] Kind(t) \in {"enum", "iface", "class"} ->
           SubstsRegions(t[3]) \cup SeqRegionsIn(SubstsTys(t[3]))
      [] Kind(t) = "res" ->
           RegionsIn(t[3]) \cup SubstsRegions(t[4]) \cup SeqRegionsIn(SubstsTys(t[4]))
      [] OTHER -> {}
SeqRegionsIn(ts) ==
    IF ts = <<>> THEN {} ELSE RegionsIn(Head(ts)) \cup SeqRegionsIn(Tail(ts))

\* ty::type_needs_infer: the type holds a type variable or a region variable
TypeNeedsInfer(t) ==
    TyVarsIn(t) # {} \/ \E r \in RegionsIn(t) : Kind(r) = "rvar"

\* ty::type_has_regions
TypeHasRegions(t) == RegionsIn(t) # {}

\* a resolver that never forces variables
ResolverUnforced(s, deep, fvars) ==
    [s |-> s, deep |-> deep, force_vars |-> FALSE,
     err |-> None, r_seen |-> <<>>, v_seen |-> <<>>]

\* resolver(infcx, deep, fvars)
Resolver(s, deep, fvars) ==
    [s |-> s, deep |-> deep, force_vars |-> fvars,
     err |-> None, r_seen |-> <<>>, v_seen |-> <<>>]

InSeq(x, q) == \E i \in 1..Len(q) : q[i] = x
\* a pop that leaves the stack as it is
PopNothing(q) == q

\* vec::pop
Pop(q) == SubSeq(q, 1, Len(q) - 1)

RECURSIVE ResolveRegion(_, _)
ResolveRegionVar(rs, rid) ==
    IF InSeq(rid, rs.r_seen)
    THEN [val |-> ReVar(rid), rs |-> [rs EXCEPT !.err = Some(<<"cyclic_region", rid>>)]]
    ELSE LET g == Get(rs.s, "rb", rid)
             rs1 == [rs EXCEPT !.r_seen = Append(@, rid), !.s = g.s]
             r1 == CASE IsSome(g.bounds.lb) -> ResolveRegion(rs1, Unwrap(g.bounds.lb))
                     [] IsSome(g.bounds.ub) -> ResolveRegion(rs1, Unwrap(g.bounds.ub))
                     [] OTHER ->
                          [val |-> ReVar(rid),
                           rs |-> IF rs1.force_vars
                                  THEN [rs1 EXCEPT !.err = Some(<<"unresolved_region", rid>>)]
                                  ELSE rs1]
         IN [val |-> r1.val, rs |-> [r1.rs EXCEPT !.r_seen = Pop(@)]]

ResolveRegion(rs, orig) ==
    IF Kind(orig) = "rvar" THEN ResolveRegionVar(rs, orig[2])
    ELSE [val |-> orig, rs |-> rs]

RECURSIVE Resolve1(_, _)
RECURSIVE ResolveSeq(_, _, _)

ResolveIfDeep(rs, typ) ==
    IF ~rs.deep THEN [val |-> typ, rs |-> rs] ELSE Resolve1(rs, typ)

\* the fields of a tuple, folded left to right
ResolveSeq(rs, ts, acc) ==
    IF Len(acc) = Len(ts) THEN [val |-> acc, rs |-> rs]
    ELSE LET r == ResolveIfDeep(rs, ts[Len(acc) + 1])
         IN ResolveSeq(r.rs, ts, Append(acc, r.val))

\* ty::fold_regions_and_ty with resolve_region on the regions and
\* resolve_if_deep on the types directly inside typ
FoldRegionsAndTy(rs, typ) ==
    CASE Kind(typ) \in {"box", "uniq", "vec"} ->
           LET r == ResolveIfDeep(rs, typ[3])
           IN [val |-> <<Kind(typ), typ[2], r.val>>, rs |-> r.rs]
      [] Kind(typ) = "rptr" ->
           LET rr == ResolveRegion(rs, typ[2])
               r == ResolveIfDeep(rr.rs, typ[4])
           IN [val |-> TRptr(rr.val, typ[3], r.val), rs |-> r.rs]
      [] Kind(typ) = "evec" /\ Kind(typ[4]) = "slice" ->
           LET rr == ResolveRegion(rs, typ[4][2])
               r == ResolveIfDeep(rr.rs, typ[3])
           IN [val |-> TEvec(typ[2], r.val, VstoreSlice(rr.val)), rs |-> r.rs]
      [] Kind(typ) = "evec" ->
           LET r == ResolveIfDeep(rs, typ[3])
           IN [val |-> TEvec(typ[2], r.val, typ[4]), rs |-> r.rs]
      [] Kind(typ) = "estr" /\ Kind(typ[2]) = "slice" ->
           LET rr == ResolveRegion(rs, typ[2][2])
           IN [val |-> TEstr(VstoreSlice(rr.val)), rs |-> rr.rs]
      [] Kind(typ) = "tup" ->
           LET r == ResolveSeq(rs, typ[2], <<>>)
           IN [val |-> TTup(r.val), rs |-> r.rs]
      [] Kind(typ) = "fn" ->
           LET ins == ResolveSeq(rs, [i \in 1..Len(typ[3]) |-> typ[3][i].ty], <<>>)
               out == ResolveIfDeep(ins.rs, typ[4])
           IN [val |-> TFn(typ[2],
                           [i \in 1..Len(typ[3]) |-> Arg(typ[3][i].mode, ins.val[i])],
                           out.val, typ[5], typ[6]),
               rs |-> out.rs]
      [] OTHER -> [val |-> typ, rs |-> rs]

\* a cycle hit that records nothing
CyclicTyUnrecorded(rs, vid) == rs

\* self.err = some(cyclic_ty(vid));
CyclicTy(rs, vid) == [rs EXCEPT !.err = Some(<<"cyclic_ty", vid>>)]

\* a resolve_ty_var that returns the chosen bound without resolving it
ResolveTyVarUnrecursed(rs, vid) ==
    IF InSeq(vid, rs.v_seen)
    THEN [val |-> TVar(vid), rs |-> CyclicTy(rs, vid)]
    ELSE LET g == Get(rs.s, "vb", vid)
             rs1 == [rs EXCEPT !.s = g.s]
             lb == g.bounds.lb
             ub == g.bounds.ub
         IN CASE IsSome(lb) /\ Unwrap(lb) # TBot -> [val |-> Unwrap(lb), rs |-> rs1]
              [] IsSome(ub) -> [val |-> Unwrap(ub), rs |-> rs1]
              [] IsSome(lb) -> [val |-> Unwrap(lb), rs |-> rs1]
              [] OTHER ->
                   [val |-> TVar(vid),
                    rs |-> IF rs1.force_vars
                           THEN [rs1 EXCEPT !.err = Some(<<"unresolved_ty", vid>>)]
                           ELSE rs1]

\* a resolve_ty_var that prefers the upper bound
ResolveTyVarUpperFirst(rs, vid) ==
    IF InSeq(vid, rs.v_seen)
    THEN [val |-> TVar(vid), rs |-> CyclicTy(rs, vid)]
    ELSE LET g == Get(rs.s, "vb", vid)
             rs1 == [rs EXCEPT !.v_seen = Append(@, vid), !.s = g.s]
             lb == g.bounds.lb
             ub == g.bounds.ub
             t1 == CASE IsSome(ub) -> Resolve1(rs1, Unwrap(ub))
                     [] IsSome(lb) -> Resolve1(rs1, Unwrap(lb))
                     [] OTHER ->
                          [val |-> TVar(vid),
                           rs |-> IF rs1.force_vars
                                  THEN [rs1 EXCEPT !.err = Some(<<"unresolved_ty", vid>>)]
                                  ELSE rs1]
         IN [val |-> t1.val, rs |-> [t1.rs EXCEPT !.v_seen = Pop(@)]]

\* a resolve_ty_var that stores the type it resolved to as both bounds of
\* the root
ResolveTyVarCaching(rs, vid) ==
    IF InSeq(vid, rs.v_seen)
    THEN [val |-> TVar(vid), rs |-> CyclicTy(rs, vid)]
    ELSE LET g == Get(rs.s, "vb", vid)
             rs1 == [rs EXCEPT !.v_seen = Append(@, vid), !.s = g.s]
             lb == g.bounds.lb
             ub == g.bounds.ub
             t1 == CASE IsSome(lb) /\ Unwrap(lb) # TBot -> Resolve1(rs1, Unwrap(lb))
                     [] IsSome(ub) -> Resolve1(rs1, Unwrap(ub))
                     [] IsSome(lb) -> Resolve1(rs1, Unwrap(lb))
                     [] OTHER ->
                          [val |-> TVar(vid),
                           rs |-> IF rs1.force_vars
                                  THEN [rs1 EXCEPT !.err = Some(<<"unresolved_ty", vid>>)]
                                  ELSE rs1]
             cached == IF Kind(t1.val) = "var" THEN t1.rs.s
                       ELSE SetVar(t1.rs.s, "vb", g.root,
                                   Bounded(MkBounds(Some(t1.val), Some(t1.val))))
         IN [val |-> t1.val, rs |-> [t1.rs EXCEPT !.v_seen = Pop(@), !.s = cached]]

ResolveTyVar(rs, vid) ==
    IF InSeq(vid, rs.v_seen)
    THEN [val |-> TVar(vid), rs |-> CyclicTy(rs, vid)]
    ELSE LET g == Get(rs.s, "vb", vid)
             rs1 == [rs EXCEPT !.v_seen = Append(@, vid), !.s = g.s]
             lb == g.bounds.lb
             ub == g.bounds.ub
             t1 == CASE IsSome(lb) /\ Unwrap(lb) # TBot -> Resolve1(rs1, Unwrap(lb))
                     [] IsSome(ub) -> Resolve1(rs1, Unwrap(ub))
                     [] IsSome(lb) -> Resolve1(rs1, Unwrap(lb))
                     [] OTHER ->
                          [val |-> TVar(vid),
                           rs |-> IF rs1.force_vars
                                  THEN [rs1 EXCEPT !.err = Some(<<"unresolved_ty", vid>>)]
                                  ELSE rs1]
         IN [val |-> t1.val, rs |-> [t1.rs EXCEPT !.v_seen = Pop(@)]]

Resolve1(rs, typ) ==
    CASE ~TypeNeedsInfer(typ) -> [val |-> typ, rs |-> rs]
      [] Kind(typ) = "var" -> ResolveTyVar(rs, typ[2])
      [] ~TypeHasRegions(typ) /\ ~rs.deep -> [val |-> typ, rs |-> rs]
      [] OTHER -> FoldRegionsAndTy(rs, typ)

\* resolve: fres<ty::t>; the two asserts on v_seen and r_seen abort the call
Resolve(rs0, typ) ==
    LET rs == [rs0 EXCEPT !.err = None]
    IN IF rs.v_seen # <<>> \/ rs.r_seen # <<>> THEN Bug(rs.s)
       ELSE LET r == Resolve1(rs, typ)
            IN IF r.rs.v_seen # <<>> \/ r.rs.r_seen # <<>> THEN Bug(r.rs.s)
               ELSE IF IsSome(r.rs.err) THEN Err(Unwrap(r.rs.err), r.rs.s)
               ELSE Ok(r.val, r.rs.s)

-----------------------------------------------------------------------------
(* The exported entry points *)

MkSubty(s, a, b) == Commit(s, LAMBDA x: Tys("sub", x, a, b))
MkSubr(s, a, b) == Commit(s, LAMBDA x: Regions("sub", x, a, b))
MkEqty(s, a, b) == Commit(s, LAMBDA x: Call("EqTys", <<x, a, b>>))
MkAssignty(s, anmnt, a, b) == Commit(s, LAMBDA x: Call("AssignTys", <<x, anmnt, a, b>>))

\* a resolve_shallow that resolves deeply
ResolveShallowDeeply(s, a, force_vars) == Resolve(Resolver(s, TRUE, force_vars), a)

ResolveShallow(s, a, force_vars) == Resolve(Resolver(s, FALSE, force_vars), a)
ResolveDeep(s, a, force_vars) == Resolve(Resolver(s, TRUE, force_vars), a)
ResolveDeepVar(s, vid, force_vars) == Resolve(Resolver(s, TRUE, force_vars), TVar(vid))


-----------------------------------------------------------------------------
(* The state machine: one inference session *)

Mutbls == {"imm", "mut", "const"}
TyVarsBelow(n) == {TVar(i) : i \in 0..(n - 1)}
RegionVarsBelow(m) == {ReVar(i) : i \in 0..(m - 1)}

\* the regions and types the callers of a session post, over the variables
\* allocated so far
RegionUniverse(m) == {ReStatic, ReScope(0), ReScope(1)} \cup RegionVarsBelow(m)
TyUniverse(n, m) ==
    {TBot, TInt} \cup TyVarsBelow(n)
        \cup {TBox(mu, TInt) : mu \in Mutbls}
        \cup {TBox(mu, t) : mu \in {"imm", "mut"}, t \in TyVarsBelow(n)}
        \cup {TRptr(r, "imm", TInt) : r \in {ReScope(1)} \cup RegionVarsBelow(m)}
\* assignments are posted from owning pointers (or variables) to borrowed
\* pointers (or variables)
AssignSources(n, m) == {t \in TyUniverse(n, m) : Kind(t) \in {"var", "box"}}
AssignTargets(n, m) == {t \in TyUniverse(n, m) : Kind(t) \in {"var", "rptr"}}
Assignments == {[expr_id |-> 17, borrow_scope |-> 1]}

\* the infer_ctxt a call runs on
Cx == [vb |-> vb, rb |-> rb, bor |-> borrowings, depth |-> MaxDepth]

Init ==
    /\ vb = NewVb(NumTyVars)
    /\ rb = NewVb(NumRegionVars)
    /\ ty_var_counter = 0
    /\ region_var_counter = 0
    /\ borrowings = {}
    /\ last = [op |-> "new_infer_ctxt", st |-> "ok", val |-> "unit"]
    /\ nops = 0
    /\ hist = <<>>

\* next_ty_var_id
NextTyVarId ==
    /\ ty_var_counter < NumTyVars
    /\ ty_var_counter' = ty_var_counter + 1
    /\ UNCHANGED <<vb, rb, region_var_counter, borrowings, last, nops, hist>>

\* next_region_var_id
NextRegionVarId ==
    /\ region_var_counter < NumRegionVars
    /\ region_var_counter' = region_var_counter + 1
    /\ UNCHANGED <<vb, rb, ty_var_counter, borrowings, last, nops, hist>>

\* a top-level call that returned r
Returned(op, r) ==
    /\ r.st \in {"ok", "err"}
    /\ vb' = r.s.vb
    /\ rb' = r.s.rb
    /\ borrowings' = r.s.bor
    /\ last' = [op |-> op, st |-> r.st, val |-> IF r.st = "ok" THEN "unit" ELSE r.val]
    /\ nops' = nops + 1
    /\ UNCHANGED <<ty_var_counter, region_var_counter>>

DoMkSubty(a, b) == Returned("mk_subty", MkSubty(Cx, a, b))
DoMkSubr(a, b) == Returned("mk_subr", MkSubr(Cx, a, b))
DoMkEqty(a, b) == Returned("mk_eqty", MkEqty(Cx, a, b))
DoMkAssignty(anmnt, a, b) == Returned("mk_assignty", MkAssignty(Cx, anmnt, a, b))

CallMkSubty ==
    /\ nops < MaxOps
    /\ \E a, b \in TyUniverse(ty_var_counter, region_var_counter) : DoMkSubty(a, b)
    /\ UNCHANGED hist

CallMkSubr ==
    /\ nops < MaxOps
    /\ \E a, b \in RegionUniverse(region_var_counter) : DoMkSubr(a, b)
    /\ UNCHANGED hist

CallMkEqty ==
    /\ nops < MaxOps
    /\ \E a, b \in TyUniverse(ty_var_counter, region_var_counter) : DoMkEqty(a, b)
    /\ UNCHANGED hist

CallMkAssignty ==
    /\ nops < MaxOps
    /\ \E anmnt \in Assignments :
       \E a \in AssignSources(ty_var_counter, region_var_counter) :
       \E b \in AssignTargets(ty_var_counter, region_var_counter) :
           DoMkAssignty(anmnt, a, b)
    /\ UNCHANGED hist

Next ==
    \/ NextTyVarId
    \/ NextRegionVarId
    \/ CallMkSubty
    \/ CallMkSubr
    \/ CallMkEqty
    \/ CallMkAssignty

Spec == Init /\ [][Next]_vars

-----------------------------------------------------------------------------
(* Sessions that only post subtype constraints between variables, bottom,   *)
(* int and boxes of variables                                               *)

MaxPosts == 3

SubUniverse(n) ==
    {TBot, TInt} \cup TyVarsBelow(n)
        \cup {TBox(mu, t) : mu \in {"imm", "mut"}, t \in TyVarsBelow(n)}

PostSubty ==
    /\ nops < MaxPosts
    /\ \E a, b \in SubUniverse(ty_var_counter) : DoMkSubty(a, b)
    /\ UNCHANGED hist

NextSub ==
    \/ NextTyVarId
    \/ PostSubty

SpecSub == Init /\ [][NextSub]_vars

-----------------------------------------------------------------------------
(* Sessions over pairs: the variables are allocated at once (next_ty_vars), *)
(* then subtype constraints are posted between pairs of a variable and      *)
(* int, bool or the first variable                                          *)

NumChainVars == 4
MaxChainOps == 3

ChainUniverse(n) ==
    {TTup(<<TVar(i), t>>) : i \in 0..(n - 1), t \in {TInt, TBool, TVar(0)}}

InitChain ==
    /\ vb = NewVb(NumChainVars)
    /\ rb = NewVb(NumRegionVars)
    /\ ty_var_counter = 0
    /\ region_var_counter = 0
    /\ borrowings = {}
    /\ last = [op |-> "new_infer_ctxt", st |-> "ok", val |-> "unit"]
    /\ nops = 0
    /\ hist = <<>>

\* next_ty_vars(NumChainVars)
NextTyVars ==
    /\ ty_var_counter = 0
    /\ ty_var_counter' = ty_var_counter + NumChainVars
    /\ UNCHANGED <<vb, rb, region_var_counter, borrowings, last, nops, hist>>

PostChainSubty ==
    /\ nops < MaxChainOps
    /\ \E a, b \in ChainUniverse(ty_var_counter) : DoMkSubty(a, b)
    /\ UNCHANGED hist

NextChain ==
    \/ NextTyVars
    \/ PostChainSubty

SpecChain == InitChain /\ [][NextChain]_vars


-----------------------------------------------------------------------------
(* Sessions whose top-level calls are recorded: subtype and equality        *)
(* constraints between variables and variable-free types                    *)

GroundTys ==
    {TInt, TBool, TBox("imm", TInt), TBox("mut", TInt), TBox("const", TInt),
     TRptr(ReStatic, "imm", TInt)}

ScenUniverse(n) ==
    GroundTys \cup TyVarsBelow(n)
        \cup {TTup(<<t, t>>) : t \in TyVarsBelow(n)}
        \cup {TTup(<<TBox("imm", TInt), TBox("const", TInt)>>)}

\* a context as new_infer_ctxt makes it
FreshCx ==
    [vb |-> NewVb(NumTyVars), rb |-> NewVb(NumRegionVars), bor |-> {},
     depth |-> MaxDepth]

Recorded(op, a, b, r) ==
    /\ Returned(op, r)
    /\ hist' = Append(hist, [op |-> op, a |-> a, b |-> b, st |-> r.st,
                             val |-> IF r.st = "ok" THEN "unit" ELSE r.val])

RecMkSubty ==
    /\ Len(hist) < MaxHist
    /\ \E a, b \in ScenUniverse(ty_var_counter) :
           Recorded("mk_subty", a, b, MkSubty(Cx, a, b))

RecMkEqty ==
    /\ Len(hist) < MaxHist
    /\ \E a, b \in ScenUniverse(ty_var_counter) :
           Recorded("mk_eqty", a, b, MkEqty(Cx, a, b))

NextH ==
    \/ NextTyVarId
    \/ RecMkSubty
    \/ RecMkEqty

SpecH == Init /\ [][NextH]_vars

-----------------------------------------------------------------------------
(* What a caller can observe of a store *)

Stores == {"vb", "rb"}
VidsOf(b) == DOMAIN b.vals

\* what get(v) returns: the root and its bounds
View(b, v) ==
    LET g == GetVals(b.vals, v) IN [root |-> g.root, bounds |-> g.bounds]
StoreView(b) == [v \in VidsOf(b) |-> View(b, v)]

IsRootIn(b, v) == b.vals[v][1] = "bounded"

\* a <: b as the engine decides it on context s: the relation holds unless
\* sub(s).tys / sub(s).regions returns an error. (On cyclic bounds the
\* engine's own check may not return; the relation is then not refuted.)
SubHolds(s, k, a, b) == Call("St", <<"sub", s, k, a, b>>).st # "err"

-----------------------------------------------------------------------------
(* Properties *)

\* C2: after every public call that succeeds, every root variable whose lower
\* and upper bounds are both present has its lower bound a subtype
\* (subregion) of its upper bound.
C2_Consistency ==
    last.st = "ok" =>
        \A k \in Stores : \A v \in VidsOf(Cx[k]) :
            IsRootIn(Cx[k], v) =>
                LET bnds == Cx[k].vals[v][2]
                IN (IsSome(bnds.lb) /\ IsSome(bnds.ub)) =>
                       SubHolds(Cx, k, Unwrap(bnds.lb), Unwrap(bnds.ub))

\* C4: in every reachable state no present bound of a type or region
\* variable is itself an inference variable at its root.
C4_NoVarInBound ==
    \A k \in Stores : \A v \in VidsOf(Cx[k]) :
        IsRootIn(Cx[k], v) =>
            LET bnds == Cx[k].vals[v][2]
            IN /\ IsSome(bnds.lb) => ~IsVar(Unwrap(bnds.lb))
               /\ IsSome(bnds.ub) => ~IsVar(Unwrap(bnds.ub))

C4_Witness ==
    \E v \in VidsOf(vb) :
        /\ IsRootIn(vb, v)
        /\ IsSome(vb.vals[v][2].ub)
        /\ TyVarsIn(Unwrap(vb.vals[v][2].ub)) # {}

\* C5: both journals are empty whenever a top-level entry point is entered
\* and whenever it has returned, with ok or with err.
C5_JournalsEmpty == vb.bindings = <<>> /\ rb.bindings = <<>>

C5_Witness ==
    /\ last.op = "mk_subr" /\ last.st = "err"
    /\ \E v \in VidsOf(vb) : IsRootIn(vb, v) /\ vb.vals[v][2] # EmptyBounds
    /\ vb.bindings = <<>> /\ rb.bindings = <<>>

\* C3: across the calls of a session the bounds of every variable only
\* tighten: a present upper bound stays present and is only replaced by a
\* subtype of the old one, a present lower bound stays present and is only
\* replaced by a supertype of the old one.
Tightened(old, new, k) ==
    /\ IsSome(old.ub) =>
           IsSome(new.ub) /\ SubHolds(Cx', k, Unwrap(new.ub), Unwrap(old.ub))
    /\ IsSome(old.lb) =>
           IsSome(new.lb) /\ SubHolds(Cx', k, Unwrap(old.lb), Unwrap(new.lb))

C3_Monotone ==
    [][\A k \in Stores : \A v \in VidsOf(Cx[k]) :
          Tightened(View(Cx[k], v).bounds, View(Cx'[k], v).bounds, k)]_vars

\* C1: when a top-level call returns an error, get(v) returns for every type
\* and region variable v the same root and the same bounds as before the
\* call.
C1_RollbackPreservesStore ==
    [][last'.st = "err" /\ nops' = nops + 1 =>
          /\ StoreView(vb') = StoreView(vb)
          /\ StoreView(rb') = StoreView(rb)]_vars

PostOn(e, T, g) ==
    /\ e.op = "mk_subty"
    /\ (e.a = T /\ e.b = g) \/ (e.a = g /\ e.b = T)

ResolvesTo(t, g, force_vars) ==
    LET r == ResolveDeep(Cx, t, force_vars) IN r.st = "ok" /\ r.val = g

\* C7: for a fresh variable T and a variable-free, non-bottom type g, after
\* posting T <: g, or g <: T, or both in either order, each post has
\* succeeded and resolve_deep(T, force_vars = true) returns ok(g).
C7_ResolvesToGround ==
    \A T \in TyVarsBelow(NumTyVars) : \A g \in GroundTys :
        (Len(hist) >= 1 /\ \A i \in 1..Len(hist) : PostOn(hist[i], T, g)) =>
            /\ \A i \in 1..Len(hist) : hist[i].st = "ok"
            /\ ResolvesTo(T, g, TRUE)

C7_Witness ==
    /\ Len(hist) = 2
    /\ hist[1].op = "mk_subty" /\ hist[1].a = TVar(0) /\ hist[1].b = TBox("mut", TInt)
    /\ hist[2].op = "mk_subty" /\ hist[2].a = TBox("mut", TInt) /\ hist[2].b = TVar(0)
    /\ ResolvesTo(TVar(0), TBox("mut", TInt), TRUE)

\* C8: for fresh variables T and U and a variable-free type g, after posting
\* T <: U and then a bound g on either of them, both posts have succeeded,
\* both variables have one root, and resolve_deep of each of them is g.
C8_MergedVariables ==
    \A T, U \in TyVarsBelow(NumTyVars) : \A g \in GroundTys :
        ( /\ T # U /\ Len(hist) = 2
          /\ hist[1].op = "mk_subty" /\ hist[1].a = T /\ hist[1].b = U
          /\ PostOn(hist[2], T, g) \/ PostOn(hist[2], U, g) ) =>
            /\ hist[1].st = "ok" /\ hist[2].st = "ok"
            /\ View(vb, T[2]).root = View(vb, U[2]).root
            /\ \A f \in BOOLEAN : ResolvesTo(T, g, f) /\ ResolvesTo(U, g, f)

C8_Witness ==
    /\ Len(hist) = 2
    /\ hist[1].op = "mk_subty" /\ hist[1].a = TVar(0) /\ hist[1].b = TVar(1)
    /\ hist[2].op = "mk_subty" /\ hist[2].a = TVar(1) /\ hist[2].b = TInt
    /\ hist[2].st = "ok"
    /\ View(vb, 0).root = View(vb, 1).root
    /\ ResolvesTo(TVar(0), TInt, TRUE)

\* C9: for a fresh variable T, mk_eqty(T, @mut int) succeeds, a following
\* mk_eqty(T, @int) fails with the mutability error, and the bounds of T
\* are still lb = ub = @mut int after the failed call.
C9_InvarianceUnderMut ==
    \A T \in TyVarsBelow(NumTyVars) :
        ( /\ Len(hist) = 2
          /\ hist[1].op = "mk_eqty" /\ hist[1].a = T /\ hist[1].b = TBox("mut", TInt)
          /\ hist[2].op = "mk_eqty" /\ hist[2].a = T /\ hist[2].b = TBox("imm", TInt) ) =>
            /\ hist[1].st = "ok"
            /\ hist[2].st = "err" /\ hist[2].val = "mutability"
            /\ View(vb, T[2]).bounds =
                   MkBounds(Some(TBox("mut", TInt)), Some(TBox("mut", TInt)))

C9_Witness ==
    /\ Len(hist) = 2
    /\ hist[1].op = "mk_eqty" /\ hist[1].a = TVar(0) /\ hist[1].b = TBox("mut", TInt)
    /\ hist[2].op = "mk_eqty" /\ hist[2].a = TVar(0) /\ hist[2].b = TBox("imm", TInt)
    /\ hist[2].st = "err"
    /\ View(vb, 0).bounds = MkBounds(Some(TBox("mut", TInt)), Some(TBox("mut", TInt)))


-----------------------------------------------------------------------------
(* Cyclic bounds: subtype posts over types that nest variables *)

MaxCycPosts == 2

CycUniverse(n) ==
    {TInt} \cup TyVarsBelow(n)
        \cup {TVec("imm", t) : t \in TyVarsBelow(n)}
        \cup {TTup(<<t, u>>) : t, u \in TyVarsBelow(n)}

PostCycSubty ==
    /\ nops < MaxCycPosts
    /\ \E a, b \in CycUniverse(ty_var_counter) : DoMkSubty(a, b)
    /\ UNCHANGED hist

NextCyc ==
    \/ NextTyVarId
    \/ PostCycSubty

SpecCyc == Init /\ [][NextCyc]_vars

\* the bound resolve_ty_var follows for v: the lower bound unless it is
\* absent or bottom, else the upper bound, else the lower bound
BoundChosen(v) ==
    LET bnds == View(vb, v).bounds
    IN CASE IsSome(bnds.lb) /\ Unwrap(bnds.lb) # TBot -> bnds.lb
         [] IsSome(bnds.ub) -> bnds.ub
         [] OTHER -> bnds.lb

\* the variables that occur in the bound chosen for v
VarsOfBound(v) == IF IsSome(BoundChosen(v)) THEN TyVarsIn(Unwrap(BoundChosen(v))) ELSE {}

RECURSIVE Closure(_, _)
Closure(S, k) ==
    IF k = 0 THEN S
    ELSE Closure(S \cup UNION {VarsOfBound(v) : v \in S}, k - 1)

\* the variables met below v, v itself excluded unless it comes back
Below(v) == Closure(VarsOfBound(v), ty_var_counter)

OnCycle(v) == v \in Below(v)

-----------------------------------------------------------------------------
(* The resolver on the stores of a session *)

\* get(vid) returns within n nested calls: the redirect chain from vid ends
RECURSIVE RootWithin(_, _, _)
RootWithin(vals, vid, n) ==
    IF vals[vid][1] = "redirect"
    THEN n > 0 /\ RootWithin(vals, vals[vid][2], n - 1)
    ELSE TRUE

\* the types handed to the resolver: the types of the session and types
\* that nest its variables
ResolveInputs ==
    TyUniverse(ty_var_counter, region_var_counter)
        \cup {TTup(<<t, u>>) : t, u \in TyVarsBelow(ty_var_counter)}
        \cup {TRptr(r, "imm", t) : r \in RegionVarsBelow(region_var_counter),
                                   t \in TyVarsBelow(ty_var_counter)}

\* resolve returned (a result or an err): no assert on v_seen and r_seen
\* failed at its entry or at its exit
ResolveReturns(r) == r.st \in {"ok", "err"}

\* C11: on every store of a session, cyclic bounds and redirect chains
\* included, resolve_shallow, resolve_deep and resolve_deep_var return for
\* every type and both values of force_vars, every redirect chain that get
\* follows ends, and v_seen and r_seen are empty at the entry and at the
\* exit of resolve.
C11_ResolverReturns ==
    /\ \A vid \in VidsOf(vb) : RootWithin(vb.vals, vid, NumTyVars)
    /\ \A rid \in VidsOf(rb) : RootWithin(rb.vals, rid, NumRegionVars)
    /\ \A f \in BOOLEAN :
        /\ \A t \in ResolveInputs :
               /\ ResolveReturns(ResolveShallow(Cx, t, f))
               /\ ResolveReturns(ResolveDeep(Cx, t, f))
        /\ \A v \in 0..(ty_var_counter - 1) :
               ResolveReturns(ResolveDeepVar(Cx, v, f))

\* a store with a redirect and a bound that leads back to its variable,
\* where resolve_deep_var of the redirected variable returns cyclic_ty
C11_Witness ==
    \E v, w \in 0..(ty_var_counter - 1) :
        /\ OnCycle(v)
        /\ vb.vals[w][1] = "redirect"
        /\ ResolveDeepVar(Cx, w, TRUE).st = "err"
        /\ ResolveDeepVar(Cx, w, TRUE).val[1] = "cyclic_ty"

\* the outcome of a resolve call: its status and the type or error returned
Outcome(r) == <<r.st, r.val>>

\* the outcome of resolving the variable v is that of resolving the type t
TyVarUses(v, t, f) ==
    /\ Outcome(ResolveShallow(Cx, TVar(v), f)) = Outcome(ResolveShallow(Cx, t, f))
    /\ ~OnCycle(v) =>
           Outcome(ResolveDeep(Cx, TVar(v), f)) = Outcome(ResolveDeep(Cx, t, f))

\* the outcome of resolving a pointer with the region variable rid is that
\* of resolving the pointer with the region r
RegionVarUses(rid, r, f) ==
    /\ Outcome(ResolveShallow(Cx, TRptr(ReVar(rid), "imm", TInt), f))
           = Outcome(ResolveShallow(Cx, TRptr(r, "imm", TInt), f))
    /\ Outcome(ResolveDeep(Cx, TRptr(ReVar(rid), "imm", TInt), f))
           = Outcome(ResolveDeep(Cx, TRptr(r, "imm", TInt), f))

\* the context after a caller posts bottom as a lower bound of v with tvar
\* (the combiners never do: they answer bottom <: t without recording it)
BottomPosted(v) == Tvar(Cx, "vb", TBot, v)

\* C12: resolving a type variable uses its lower bound when that is present
\* and not bottom, otherwise its upper bound when present, otherwise its
\* lower bound (then bottom); resolving a region variable uses its lower
\* bound when present, otherwise its upper bound.
C12_ResolverPriority ==
    \A f \in BOOLEAN :
        /\ \A v \in 0..(ty_var_counter - 1) :
               LET lb == View(vb, v).bounds.lb
                   ub == View(vb, v).bounds.ub
               IN /\ (lb # None /\ lb # Some(TBot)) => TyVarUses(v, Unwrap(lb), f)
                  /\ (lb \in {None, Some(TBot)} /\ ub # None) => TyVarUses(v, Unwrap(ub), f)
                  /\ (lb = Some(TBot) /\ ub = None) => TyVarUses(v, TBot, f)
        /\ \A v \in 0..(ty_var_counter - 1) :
               LET p == BottomPosted(v)
                   lb == View(p.s.vb, v).bounds.lb
                   ub == View(p.s.vb, v).bounds.ub
               IN (p.st = "ok" /\ lb = Some(TBot)) =>
                      Outcome(ResolveShallow(p.s, TVar(v), f))
                          = IF ub # None
                            THEN Outcome(ResolveShallow(p.s, Unwrap(ub), f))
                            ELSE <<"ok", TBot>>
        /\ \A rid \in 0..(region_var_counter - 1) :
               LET lb == View(rb, rid).bounds.lb
                   ub == View(rb, rid).bounds.ub
               IN /\ lb # None => RegionVarUses(rid, Unwrap(lb), f)
                  /\ (lb = None /\ ub # None) => RegionVarUses(rid, Unwrap(ub), f)

\* a variable between @int and @const int resolves to @int; a variable
\* with the upper bound int resolves to int, also once bottom is its lower
\* bound
C12_Witness ==
    \E v, w \in 0..(ty_var_counter - 1) :
        /\ View(vb, w).bounds = MkBounds(Some(TBox("imm", TInt)), Some(TBox("const", TInt)))
        /\ Outcome(ResolveDeep(Cx, TVar(w), TRUE)) = <<"ok", TBox("imm", TInt)>>
        /\ View(vb, v).bounds = EmptyBounds
        /\ BottomPosted(v).st = "ok"
        /\ View(BottomPosted(v).s.vb, v).bounds = MkBounds(Some(TBot), None)
        /\ Outcome(ResolveShallow(BottomPosted(v).s, TVar(v), TRUE)) = <<"ok", TBot>>

\* the type variables and the region variables of t that have neither bound
UnconstrainedTyVars(t) == {v \in TyVarsIn(t) : View(vb, v).bounds = EmptyBounds}
UnconstrainedRegionVars(t) ==
    {r[2] : r \in {x \in RegionsIn(t) : Kind(x) = "rvar" /\ View(rb, x[2]).bounds = EmptyBounds}}

\* the type variables resolve_deep meets from t, and the region variables
\* it meets in t and in the bounds it follows
MetFrom(t) == Closure(TyVarsIn(t), ty_var_counter)
RegionsMetFrom(t) ==
    RegionsIn(t) \cup UNION {RegionsIn(Unwrap(BoundChosen(v))) :
                                v \in {w \in MetFrom(t) : IsSome(BoundChosen(w))}}

\* the variables with neither bound among them
UnresolvedTyVarsMet(t) == {v \in MetFrom(t) : View(vb, v).bounds = EmptyBounds}
UnresolvedRegionVarsMet(t) ==
    {r[2] : r \in {x \in RegionsMetFrom(t) :
                      Kind(x) = "rvar" /\ View(rb, x[2]).bounds = EmptyBounds}}

C15_ResolveDeepIdempotent ==
    \A f \in BOOLEAN : \A t \in ResolveInputs :
        LET r == ResolveDeep(Cx, t, f)
        IN r.st = "ok" =>
               /\ Outcome(ResolveDeep(r.s, r.val, f)) = <<"ok", r.val>>
               /\ Outcome(ResolveDeep(Cx, r.val, f)) = <<"ok", r.val>>

\* variable 0 is bounded by a box of variable 1 and variable 1 by int:
\* resolve_deep of variable 0 gives the box of int, which resolves to
\* itself, and the pair of the two variables resolves to a ground pair
C15_Witness ==
    /\ ty_var_counter = 2
    /\ \E mu \in Mutbls :
        /\ BoundChosen(0) = Some(TBox(mu, TVar(1)))
        /\ BoundChosen(1) = Some(TInt)
        /\ Outcome(ResolveDeep(Cx, TVar(0), TRUE)) = <<"ok", TBox(mu, TInt)>>
        /\ Outcome(ResolveDeep(Cx, TBox(mu, TInt), TRUE)) = <<"ok", TBox(mu, TInt)>>
        /\ Outcome(ResolveDeep(Cx, TTup(<<TVar(0), TVar(1)>>), FALSE))
               = <<"ok", TTup(<<TBox(mu, TInt), TInt>>)>>

-----------------------------------------------------------------------------
(* Sessions that end with an assignment: subtype constraints and earlier    *)
(* assignments give the variables bounds and the borrowings map entries,    *)
(* then one assignment between owning and borrowed types is recorded        *)

MaxBoundPosts == 2

\* the scopes an assignment may borrow to, for the one expression 17
BorrowAssignments == {[expr_id |-> 17, borrow_scope |-> sc] : sc \in {0, 1}}

\* the regions of the borrowed types
BorrowRegions(m) == {ReScope(0), ReScope(1)} \cup RegionVarsBelow(m)

\* the types posted as bounds of the variables
BoundTys ==
    {TBox("mut", TInt), TRptr(ReScope(1), "const", TInt),
     TEvec("mut", TInt, VstoreBox), TEvec("const", TInt, VstoreSlice(ReScope(1)))}

\* the types assigned from: owning pointers, vectors and strings, a slice
OwningTys ==
    {TBot, TInt, TBox("mut", TInt), TUniq("imm", TInt), TVec("mut", TInt),
     TStr, TEstr(VstoreBox), TEstr(VstoreSlice(ReScope(1))),
     TEvec("mut", TI32, VstoreBox), TEvec("imm", TInt, VstoreFixed(3)),
     TEvec("imm", TInt, VstoreSlice(ReScope(1)))}

\* the types assigned to: borrowed pointers and slices
BorrowedTys(m) ==
    {TInt, TBox("const", TInt), TEvec("imm", TInt, VstoreSlice(ReScope(1)))}
        \cup {TRptr(r, "const", TInt) : r \in BorrowRegions(m)}
        \cup {TEvec("const", TI32, VstoreSlice(r)) : r \in BorrowRegions(m)}
        \cup {TEstr(VstoreSlice(r)) : r \in {ReScope(1)} \cup RegionVarsBelow(m)}

\* mk_subty between a variable and a bound type or a variable
PostBound ==
    /\ nops < MaxBoundPosts
    /\ hist = <<>>
    /\ \E v \in TyVarsBelow(ty_var_counter) :
       \E t \in BoundTys \cup TyVarsBelow(ty_var_counter) :
           DoMkSubty(v, t) \/ DoMkSubty(t, v)
    /\ UNCHANGED hist

\* an earlier mk_assignty of expression 17 from a box to a borrowed pointer
EarlierMkAssignty ==
    /\ nops < MaxBoundPosts
    /\ hist = <<>>
    /\ \E anmnt \in BorrowAssignments :
           DoMkAssignty(anmnt, TBox("mut", TInt), TRptr(ReScope(1), "const", TInt))
    /\ UNCHANGED hist

\* the mk_assignty that ends the session; its arguments and its result are
\* recorded
RecMkAssignty ==
    /\ hist = <<>>
    /\ \E anmnt \in BorrowAssignments :
       \E a \in OwningTys \cup TyVarsBelow(ty_var_counter) :
       \E b \in BorrowedTys(region_var_counter) \cup TyVarsBelow(ty_var_counter) :
           LET r == MkAssignty(Cx, anmnt, a, b)
           IN /\ Returned("mk_assignty", r)
              /\ hist' = <<[op |-> "mk_assignty", anmnt |-> anmnt, a |-> a, b |-> b,
                            st |-> r.st, val |-> IF r.st = "ok" THEN "unit" ELSE r.val]>>

NextAssign ==
    \/ NextTyVarId
    \/ NextRegionVarId
    \/ PostBound
    \/ EarlierMkAssignty
    \/ RecMkAssignty

SpecAssign == Init /\ [][NextAssign]_vars

\* the bound assign_tys finds for the assigned side a and for the side b
\* assigned to: the type itself, or for a variable its upper bound before
\* its lower bound (a), its lower bound before its upper bound (b)
BoundOfSource(a) ==
    IF Kind(a) # "var" THEN Some(a)
    ELSE LET bnds == View(vb, a[2]).bounds
         IN IF bnds.ub # None THEN bnds.ub ELSE bnds.lb
BoundOfTarget(b) ==
    IF Kind(b) # "var" THEN Some(b)
    ELSE LET bnds == View(vb, b[2]).bounds
         IN IF bnds.lb # None THEN bnds.lb ELSE bnds.ub

\* the borrowing patterns: the owning form ta against the borrowed form tb
OwningVstore(v) == v \in {VstoreUniq, VstoreBox} \/ Kind(v) = "fixed"
BorrowsAs(ta, tb) ==
    \/ Kind(ta) \in {"box", "uniq"} /\ Kind(tb) = "rptr"
    \/ /\ Kind(tb) = "evec" /\ Kind(tb[4]) = "slice"
       /\ Kind(ta) = "vec" \/ (Kind(ta) = "evec" /\ OwningVstore(ta[4]))
    \/ /\ Kind(tb) = "estr" /\ Kind(tb[2]) = "slice"
       /\ Kind(ta) = "str" \/ (Kind(ta) = "estr" /\ OwningVstore(ta[2]))

\* the region of the borrowed form, and the borrowed form with the owning
\* constructor of ta in place of its reference
RegionOf(tb) ==
    CASE Kind(tb) = "rptr" -> tb[2]
      [] Kind(tb) = "evec" -> tb[4][2]
      [] OTHER -> tb[2][2]
NonRegionForm(ta, tb) ==
    CASE Kind(ta) = "box" -> TBox(tb[3], tb[4])
      [] Kind(ta) = "uniq" -> TUniq(tb[3], tb[4])
      [] Kind(ta) = "evec" -> TEvec(tb[2], tb[3], ta[4])
      [] Kind(ta) = "vec" -> TVec(tb[2], tb[3])
      [] OTHER -> ta

\* the recorded call found bounds on both sides that match a borrowing
\* pattern
FoundBorrow(e) ==
    /\ Kind(e.a) # "bot"
    /\ BoundOfSource(e.a) # None /\ BoundOfTarget(e.b) # None
    /\ BorrowsAs(Unwrap(BoundOfSource(e.a)), Unwrap(BoundOfTarget(e.b)))

\* sub_tys(a, nr_b) and then the region requirement, on the context of the
\* call
BorrowRequirements(e) ==
    LET ta == Unwrap(BoundOfSource(e.a))
        tb == Unwrap(BoundOfTarget(e.b))
        r1 == SubTysU(Cx, e.a, NonRegionForm(ta, tb))
    IN IF r1.st = "ok"
       THEN ContraRegions("sub", r1.s, ReScope(e.anmnt.borrow_scope), RegionOf(tb))
       ELSE r1

\* the step is the recorded mk_assignty
Assigned == hist = <<>> /\ hist' # <<>>

\* C16: when make_assignable((expr_id, borrow_scope), a, b) finds bounds
\* that match a borrowing pattern, the call succeeds exactly when
\* sub_tys(a, nr_b) and the region requirement succeed, and then the
\* borrowings map maps expr_id to borrow_scope and to nothing else, the
\* other entries being kept; when a and b hold no type variable the bounds
\* of the type variables are what they were.
C16_BorrowRecorded ==
    [][(Assigned /\ FoundBorrow(hist'[1])) =>
          LET e == hist'[1]
          IN /\ e.st = "ok" <=> BorrowRequirements(e).st = "ok"
             /\ e.st = "ok" =>
                    borrowings' = {p \in borrowings : p[1] # e.anmnt.expr_id}
                                      \cup {<<e.anmnt.expr_id, e.anmnt.borrow_scope>>}
             /\ (TyVarsIn(e.a) = {} /\ TyVarsIn(e.b) = {}) =>
                    StoreView(vb') = StoreView(vb)]_vars

\* @[mut i32] was assigned to a slice of const i32 for expression 17 and
\* scope 1, after expression 17 had borrowed to scope 0: the call succeeded,
\* the map holds 17 -> 1 only, and no type variable has a bound
C16_Witness ==
    /\ hist # <<>>
    /\ hist[1].a = TEvec("mut", TI32, VstoreBox)
    /\ hist[1].b = TEvec("const", TI32, VstoreSlice(ReScope(1)))
    /\ hist[1].anmnt = [expr_id |-> 17, borrow_scope |-> 1]
    /\ hist[1].st = "ok"
    /\ nops = 2
    /\ borrowings = {<<17, 1>>}
    /\ \A v \in VidsOf(vb) : View(vb, v).bounds = EmptyBounds

\* the recorded call is not from bottom and found no bound on a side or
\* bounds that match no borrowing pattern
FellBack(e) == Kind(e.a) # "bot" /\ ~FoundBorrow(e)

\* a store with its missing entries read as variables without bounds
WithMissingEntries(b) ==
    [v \in VidsOf(b) |-> IF b.vals[v] = Absent THEN Bounded(EmptyBounds) ELSE b.vals[v]]

\* C17: when a is not bottom and a side has no bound or the bounds found
\* match no borrowing pattern (an assigned slice included),
\* make_assignable(anmnt, a, b) returns what make_subtype(a, b) returns,
\* leaves both variable stores as make_subtype(a, b) leaves them (a missing
\* entry being a variable without bounds) and leaves the borrowings map as
\* it was.
C17_FallbackIsSubtype ==
    [][(Assigned /\ FellBack(hist'[1])) =>
          LET e == hist'[1]
              r == MkSubty(Cx, e.a, e.b)
          IN /\ e.st = r.st
             /\ e.val = (IF r.st = "ok" THEN "unit" ELSE r.val)
             /\ WithMissingEntries(vb') = WithMissingEntries(r.s.vb)
             /\ WithMissingEntries(rb') = WithMissingEntries(r.s.rb)
             /\ vb'.bindings = r.s.vb.bindings /\ rb'.bindings = r.s.rb.bindings
             /\ borrowings' = borrowings]_vars

\* a slice of int for scope 1 was assigned to a slice of const i32 for the
\* region variable 0 after expression 17 had borrowed: the call succeeded as
\* the subtyping does, bounding the region variable, and the map is as it
\* was
C17_Witness ==
    /\ hist # <<>>
    /\ hist[1].a = TEvec("imm", TInt, VstoreSlice(ReScope(1)))
    /\ hist[1].b = TEvec("const", TI32, VstoreSlice(ReVar(0)))
    /\ hist[1].anmnt.borrow_scope = 1
    /\ hist[1].st = "ok"
    /\ View(rb, 0).bounds # EmptyBounds
    /\ borrowings = {<<17, 0>>}

-----------------------------------------------------------------------------
(* The combiners as functions of a store and two types *)

RECURSIVE RootsFor(_, _)
\* the type t with every type variable replaced by the root of its
\* redirect chain in the store b
RootsFor(b, t) ==
    CASE Kind(t) = "var" -> TVar(View(b, t[2]).root)
      [] Kind(t) \in {"box", "uniq", "vec"} -> <<Kind(t), t[2], RootsFor(b, t[3])>>
      [] Kind(t) = "rptr" -> TRptr(t[2], t[3], RootsFor(b, t[4]))
      [] Kind(t) = "evec" -> TEvec(t[2], RootsFor(b, t[3]), t[4])
      [] Kind(t) = "tup" -> TTup([i \in 1..Len(t[2]) |-> RootsFor(b, t[2][i])])
      [] OTHER -> t

\* t and u are the same type up to the identity of the variables in the
\* context s: the same once every variable is replaced by its root, or
\* resolve_deep gives the same for both
SameUpToVars(s, t, u) ==
    \/ RootsFor(s.vb, t) = RootsFor(s.vb, u)
    \/ LET rt == ResolveDeep(s, t, FALSE)
           ru == ResolveDeep(s, u, FALSE)
       IN /\ rt.st = "ok" /\ ru.st = "ok"
          /\ RootsFor(s.vb, rt.val) = RootsFor(s.vb, ru.val)

\* C18: for all types a and b of a session that share no variable, on a
\* store where no bound leads back to its variable: when Sub.tys(a, b)
\* succeeds, Lub.tys(a, b) on the resulting store returns b and
\* Glb.tys(a, b) returns a, up to the identity of variables.
C18_SubImpliesLubGlb ==
    (\A v \in 0..(ty_var_counter - 1) : ~OnCycle(v)) =>
        \A a, b \in TyUniverse(ty_var_counter, region_var_counter) :
            LET r == Tys("sub", Cx, a, b)
                l == Tys("lub", r.s, a, b)
                g == Tys("glb", r.s, a, b)
            IN (r.st = "ok" /\ TyVarsIn(a) \cap TyVarsIn(b) = {}) =>
                   /\ l.st # "div" => l.st = "ok" /\ SameUpToVars(l.s, l.val, b)
                   /\ g.st # "div" => g.st = "ok" /\ SameUpToVars(g.s, g.val, a)

-----------------------------------------------------------------------------
(* Lub and Glb on variable-free types and regions                          *)

GroundRegions ==
    {ReStatic, ReScope(0), ReScope(1), ReScope(2), ReScope(3),
     ReFree(0, "a"), ReFree(1, "a"), ReFree(2, "b"), ReBound("a"), ReBound("b")}

\* the constraint lists of the function types
ConstraintLists == {<<>>, <<"init">>}

GroundFns ==
    {TFn(p, <<Arg("by_ref", t)>>, o[1], o[2], cs) :
        p \in {"proto_bare", "proto_box", "proto_any"},
        t \in {TBox("imm", TInt), TBox("const", TInt)},
        o \in {<<TInt, "return_val">>, <<TBot, "noreturn">>},
        cs \in ConstraintLists}

GroundUniverse ==
    {TBot, TInt, TBool, TStr, TUniq("imm", TBool), TVec("mut", TInt)}
        \cup {TBox(m, TInt) : m \in Mutbls}
        \cup {TBox("mut", TBox(m, TInt)) : m \in {"imm", "const"}}
        \cup {TRptr(r, m, TInt) :
                 r \in {ReStatic, ReScope(0), ReScope(1), ReFree(0, "a")},
                 m \in {"imm", "mut"}}
        \cup {TTup(<<TInt>>), TTup(<<TInt, TBox("imm", TInt)>>),
              TTup(<<TInt, TBox("const", TInt)>>)}
        \cup {TEstr(vs) : vs \in {VstoreUniq, VstoreFixed(3),
                                  VstoreSlice(ReScope(0)), VstoreSlice(ReScope(1))}}
        \cup {TEvec("imm", TInt, VstoreSlice(ReScope(1))), TEvec("mut", TInt, VstoreUniq)}
        \cup GroundFns

\* a combiner ran on a new context and returned r
Combined(op, a, b, r) ==
    /\ hist = <<>>
    /\ Returned(op, r)
    /\ hist' = <<[op |-> op, a |-> a, b |-> b, st |-> r.st, val |-> r.val]>>

LubTys == \E a, b \in GroundUniverse : Combined("lub_tys", a, b, Tys("lub", Cx, a, b))
GlbTys == \E a, b \in GroundUniverse : Combined("glb_tys", a, b, Tys("glb", Cx, a, b))
LubOfRegions ==
    \E a, b \in GroundRegions : Combined("lub_regions", a, b, Regions("lub", Cx, a, b))
GlbOfRegions ==
    \E a, b \in GroundRegions : Combined("glb_regions", a, b, Regions("glb", Cx, a, b))

SubOfRegions ==
    \E a, b \in GroundRegions : Combined("sub_regions", a, b, Regions("sub", Cx, a, b))

NextGround ==
    \/ LubTys
    \/ GlbTys
    \/ LubOfRegions
    \/ GlbOfRegions
    \/ SubOfRegions

SpecGround == Init /\ [][NextGround]_vars

\* the same combiner on the same context with the arguments exchanged
Exchanged(e) ==
    CASE e.op = "lub_tys" -> Tys("lub", FreshCx, e.b, e.a)
      [] e.op = "glb_tys" -> Tys("glb", FreshCx, e.b, e.a)
      [] e.op = "lub_regions" -> Regions("lub", FreshCx, e.b, e.a)
      [] e.op = "glb_regions" -> Regions("glb", FreshCx, e.b, e.a)

\* C19: for all variable-free types and regions a and b, Lub(a, b) succeeds
\* exactly when Lub(b, a) succeeds, and then both return the same value;
\* likewise for Glb.
C19_LubGlbCommutative ==
    \A i \in 1..Len(hist) :
        hist[i].op \in {"lub_tys", "glb_tys", "lub_regions", "glb_regions"} =>
            LET e == hist[i]
                x == Exchanged(e)
            IN /\ (e.st = "ok") <=> (x.st = "ok")
               /\ e.st = "ok" => e.val = x.val

-----------------------------------------------------------------------------
(* get on the stores of a session over pairs                                *)

RECURSIVE RedirectChain(_, _)
\* the variables get(vid) passes through before it reaches the root
RedirectChain(vals, vid) ==
    IF Kind(vals[vid]) = "redirect"
    THEN {vid} \cup RedirectChain(vals, vals[vid][2])
    ELSE {}

\* C20: after get(v) returns the root r, the entry of r is Bounded and
\* every variable on the redirect chain that started at v, v included,
\* holds Redirect(r).
C20_PathCompressed ==
    \A v \in 0..(ty_var_counter - 1) :
        LET g == Get(Cx, "vb", v)
        IN /\ Kind(g.s.vb.vals[g.root]) = "bounded"
           /\ \A w \in RedirectChain(vb.vals, v) :
                  g.s.vb.vals[w] = Redirect(g.root)

-----------------------------------------------------------------------------
(* The journal under set and get                                            *)

\* the entries of the journal of b2 that were pushed after those of b1
PushedSince(b1, b2) ==
    {b2.bindings[i] : i \in (Len(b1.bindings) + 1)..Len(b2.bindings)}

\* every entry of b1 that exists and has another value in b2 was pushed
\* with its value in b1
ChangesJournalled(b1, b2) ==
    \A w \in DOMAIN b1.vals :
        (b1.vals[w] # Absent /\ b2.vals[w] # b1.vals[w]) =>
            <<w, b1.vals[w]>> \in PushedSince(b1, b2)

\* C21: every change of an existing entry of the store, by set or by the
\* path compression of get, comes with a journal entry holding the variable
\* and the value it had before.
C21_MutationsJournalled ==
    \A v \in 0..(ty_var_counter - 1) :
        /\ ChangesJournalled(vb, Get(Cx, "vb", v).s.vb)
        /\ \A w \in 0..(ty_var_counter - 1) :
               v # w => ChangesJournalled(vb, SetVar(Cx, "vb", v, Redirect(w)).vb)

-----------------------------------------------------------------------------
(* vars on the stores of a session over pairs                               *)

TyVids == 0..(ty_var_counter - 1)

\* what get returns for a variable of the store b
RootOf(b, v) == GetVals(b.vals, v).root
BoundsOf(b, v) == GetVals(b.vals, v).bounds

\* the two stores give every variable the same root and the same bounds
SameView(b1, b2) ==
    \A v \in DOMAIN b1.vals :
        RootOf(b1, v) = RootOf(b2, v) /\ BoundsOf(b1, v) = BoundsOf(b2, v)

\* C22: vars on two variables that have the same root, and Sub.tys on them,
\* return ok, push nothing on the journal and leave the root and the
\* bounds of every variable as they were.
C22_SameRootNoOp ==
    \A a, b \in TyVids :
        RootOf(vb, a) = RootOf(vb, b) =>
            LET r == Vars(Cx, "vb", a, b)
                t == Tys("sub", Cx, TVar(a), TVar(b))
            IN /\ r.st = "ok" /\ t.st = "ok"
               /\ r.s.vb.bindings = vb.bindings
               /\ t.s.vb.bindings = vb.bindings
               /\ SameView(vb, r.s.vb) /\ SameView(vb, t.s.vb)
               /\ r.s.rb = rb /\ t.s.rb = rb

\* two distinct variables share a root that has a bound, and vars on them
\* returned ok
C22_Witness ==
    \E a, b \in TyVids :
        /\ a # b
        /\ RootOf(vb, a) = RootOf(vb, b)
        /\ BoundsOf(vb, a) # EmptyBounds
        /\ Vars(Cx, "vb", a, b).st = "ok"

-----------------------------------------------------------------------------
(* Sessions with bounds that hold variables: five variables are allocated   *)
(* at once, V0 gets upper bounds and V1 lower bounds that are pairs of a    *)
(* variable and a type, then triples around V0 and V1 are related           *)

NumNestVars == 5
MaxNestPosts == 3

NestBounds ==
    {<<TVar(0), TTup(<<TVar(2), t>>)>> : t \in {TInt, TBox("const", TInt)}}
        \cup {<<TTup(<<TVar(3), t>>), TVar(1)>> : t \in {TInt, TBox("imm", TInt)}}
        \cup {<<TVar(2), TInt>>, <<TInt, TVar(3)>>, <<TVar(3), TBool>>}

NestTriples ==
    {<<TTup(<<TVar(4), TVar(0), x>>), TTup(<<TInt, TVar(1), y>>)>> :
        x, y \in {TInt, TBool}}

InitNest ==
    /\ vb = NewVb(NumNestVars)
    /\ rb = NewVb(NumRegionVars)
    /\ ty_var_counter = 0
    /\ region_var_counter = 0
    /\ borrowings = {}
    /\ last = [op |-> "new_infer_ctxt", st |-> "ok", val |-> "unit"]
    /\ nops = 0
    /\ hist = <<>>

\* next_ty_vars(NumNestVars)
NextNestVars ==
    /\ ty_var_counter = 0
    /\ ty_var_counter' = ty_var_counter + NumNestVars
    /\ UNCHANGED <<vb, rb, region_var_counter, borrowings, last, nops, hist>>

PostNestBound ==
    /\ ty_var_counter > 0
    /\ nops < MaxNestPosts
    /\ \E p \in NestBounds : DoMkSubty(p[1], p[2])
    /\ UNCHANGED hist

PostNestTriple ==
    /\ ty_var_counter > 0
    /\ nops < MaxNestPosts
    /\ \E p \in NestTriples : DoMkSubty(p[1], p[2])
    /\ UNCHANGED hist

NextNest ==
    \/ NextNestVars
    \/ PostNestBound
    \/ PostNestTriple

SpecNest == InitNest /\ [][NextNest]_vars

\* the body of the try inside vars(a, b): ub(a) <: lb(b)
UbSubLb(x, a, b) ==
    WithVal(Call("St", <<"sub", x, "vb", Unwrap(BoundsOf(vb, a).ub),
                         Unwrap(BoundsOf(vb, b).lb)>>), "unit")

\* an enclosing transaction that gives e the upper bound int, runs the
\* inner try and then fails
EnclosingFails(e, a, b) ==
    Try(Cx, LAMBDA x :
        LET first == Vart(x, "vb", e, TInt)
            inner == Try(first.s, LAMBDA y : UbSubLb(y, a, b))
        IN IF first.st = "ok" /\ inner.st = "ok" THEN Err("later", inner.s) ELSE Div(x))

\* the cases of a nested try: e, a and b are variables, a has an upper
\* bound and b a lower bound, and giving e the upper bound int succeeds
NestedCases ==
    {c \in TyVids \X TyVids \X TyVids :
        /\ RootOf(vb, c[2]) # RootOf(vb, c[3])
        /\ IsSome(BoundsOf(vb, c[2]).ub) /\ IsSome(BoundsOf(vb, c[3]).lb)
        /\ Vart(Cx, "vb", c[1], TInt).st = "ok"}

IsPrefix(p, q) == Len(p) <= Len(q) /\ SubSeq(q, 1, Len(p)) = p

-----------------------------------------------------------------------------
(* The two paths of vars on distinct roots                                  *)

\* the pairs of variables with distinct roots
DistinctRoots == {p \in TyVids \X TyVids : RootOf(vb, p[1]) # RootOf(vb, p[2])}

\* the context after the two calls of get at the start of vars(a, b)
AfterGets(a, b) == Get(Get(Cx, "vb", a).s, "vb", b).s

\* try {|| a_ub.sub(self, b_lb)} as vars(a, b) runs it; an err when one of
\* the two bounds is missing
Decoupled(a, b) ==
    IF IsSome(BoundsOf(vb, a).ub) /\ IsSome(BoundsOf(vb, b).lb)
    THEN Try(AfterGets(a, b), LAMBDA x : UbSubLb(x, a, b))
    ELSE Err("no_bounds", AfterGets(a, b))

Merged(a, b) == Decoupled(a, b).st = "err" /\ Vars(Cx, "vb", a, b).st = "ok"

-----------------------------------------------------------------------------
(* set_var_to_merged_bounds as vart, tvar and vars call it                  *)

\* the types a variable is related to
RelatedTys ==
    {t \in TyUniverse(ty_var_counter, region_var_counter) : Kind(t) \notin {"var", "bot"}}

\* the calls of set_var_to_merged_bounds: the context, the variable written
\* and the two bounds
MergeCalls ==
    {[s |-> AfterGets(x, x), v |-> RootOf(vb, x), a |-> BoundsOf(vb, x),
      b |-> MkBounds(None, Some(t))] : x \in TyVids, t \in RelatedTys}
        \cup {[s |-> AfterGets(x, x), v |-> RootOf(vb, x),
               a |-> MkBounds(Some(t), None), b |-> BoundsOf(vb, x)] :
                 x \in TyVids, t \in RelatedTys}
        \cup {[s |-> SetVar(AfterGets(p[1], p[2]), "vb", RootOf(vb, p[2]),
                            Redirect(RootOf(vb, p[1]))),
               v |-> RootOf(vb, p[1]), a |-> BoundsOf(vb, p[1]),
               b |-> BoundsOf(vb, p[2])] : p \in DistinctRoots}

\* the first of the three relations of a merge that fails: a.lb <: b.ub,
\* b.lb <: a.ub, or lb' <: ub' on the merged bounds; ok when none does
FailedCheck(c) ==
    LET r1 == Bnds(c.s, "vb", c.a.lb, c.b.ub)
        r2 == Bnds(r1.s, "vb", c.b.lb, c.a.ub)
        ub == MergeBnd(r2.s, "vb", c.a.ub, c.b.ub, "glb")
        lb == MergeBnd(ub.s, "vb", c.a.lb, c.b.lb, "lub")
        r5 == Bnds(lb.s, "vb", lb.val, ub.val)
    IN CASE r1.st # "ok" -> r1
         [] r2.st # "ok" -> r2
         [] ub.st = "ok" /\ lb.st = "ok" /\ r5.st = "err" -> r5
         [] OTHER -> Ok("unit", c.s)

CheckFails(c) == FailedCheck(c).st = "err"

-----------------------------------------------------------------------------
(* mts of the three combiners, through boxes, on the stores of a session    *)
(* with bounds that hold variables                                          *)

\* the pointee types
MtTys == {TInt, TBool, TBox("imm", TInt), TBox("const", TInt)} \cup TyVarsBelow(ty_var_counter)

\* r and q are the same outcome: the same status and the same store
SameOutcome(r, q) == r.st = q.st /\ r.s.vb = q.s.vb /\ r.s.rb = q.s.rb

\* C27: Sub on @ma ta and @mb tb fails with the mutability error when ma
\* differs from mb and mb is not const; when mb is mut it is ta <: tb
\* followed by tb <: ta; when mb is imm or const it is ta <: tb alone. On
\* success the result is @ma ta.
C27_SubMts ==
    \A ma, mb \in Mutbls : \A ta, tb \in MtTys :
        LET r == Tys("sub", Cx, TBox(ma, ta), TBox(mb, tb))
            fwd == Tys("sub", Cx, ta, tb)
            back == Tys("sub", fwd.s, tb, ta)
        IN r.st # "div" =>
               /\ CASE ma # mb /\ mb # "const" ->
                         r.st = "err" /\ r.val = "mutability" /\ r.s = Cx
                    [] mb = "mut" ->
                         IF fwd.st = "ok" THEN SameOutcome(r, back) ELSE SameOutcome(r, fwd)
                    [] OTHER -> SameOutcome(r, fwd)
               /\ r.st = "ok" => r.val = TBox(ma, ta)

\* the three cases happen: a mutability error, a mut pointer whose pointee
\* is below but not above, a const pointer that needs the pointee to be
\* below only, and a mut pointer to a variable with a bound that is made
\* equal to a type
C27_Witness ==
    /\ \E ta, tb \in MtTys :
           /\ Tys("sub", Cx, ta, tb).st = "ok"
           /\ Tys("sub", Tys("sub", Cx, ta, tb).s, tb, ta).st = "err"
           /\ Tys("sub", Cx, TBox("mut", ta), TBox("mut", tb)).st = "err"
           /\ Tys("sub", Cx, TBox("mut", ta), TBox("const", tb)).st = "ok"
    /\ \E ta, tb \in MtTys :
           /\ IsVar(ta) /\ ~IsVar(tb) /\ IsSome(BoundsOf(vb, ta[2]).ub)
           /\ Tys("sub", Cx, TBox("mut", ta), TBox("mut", tb)).st = "ok"
    /\ \E ta \in MtTys :
           /\ Tys("sub", Cx, TBox("imm", ta), TBox("mut", ta)).st = "err"
           /\ Tys("sub", Cx, TBox("imm", ta), TBox("mut", ta)).val = "mutability"

\* r and q are the same outcome up to what get leaves in the entries: the
\* same status, the same journal, and every variable with the same root
\* and bounds
SameOutcomeView(r, q) ==
    /\ r.st = q.st
    /\ r.s.vb.bindings = q.s.vb.bindings
    /\ SameView(r.s.vb, q.s.vb)
    /\ r.s.rb = q.s.rb

GlbRule(ma, mb, ta, tb) ==
    CASE ma = "mut" /\ mb = "mut" ->
           [rel |-> EqTys(Cx, ta, tb), m |-> "mut", ty |-> "a"]
      [] ma = "mut" /\ mb = "const" ->
           [rel |-> Tys("sub", Cx, ta, tb), m |-> "mut", ty |-> "a"]
      [] ma = "const" /\ mb = "mut" ->
           [rel |-> Tys("sub", Cx, tb, ta), m |-> "mut", ty |-> "b"]
      [] ma = "const" /\ mb = "const" ->
           [rel |-> Tys("glb", Cx, ta, tb), m |-> "const", ty |-> "glb"]
      [] "mut" \notin {ma, mb} ->
           [rel |-> Tys("glb", Cx, ta, tb), m |-> "imm", ty |-> "glb"]
      [] OTHER -> [rel |-> Err("mutability", Cx), m |-> "none", ty |-> "none"]

\* C29: Glb on @ma ta and @mb tb follows the table: (mut, mut) is eq_tys
\* and gives @mut ta; (mut, const) is ta <: tb and gives @mut ta;
\* (const, mut) is tb <: ta and gives @mut tb; (imm, imm), (imm, const)
\* and (const, imm) give @imm over Glb(ta, tb); (const, const) gives
\* @const over Glb(ta, tb); (mut, imm) and (imm, mut) fail with the
\* mutability error.
C29_GlbMts ==
    \A ma, mb \in Mutbls : \A ta, tb \in MtTys :
        LET r == Tys("glb", Cx, TBox(ma, ta), TBox(mb, tb))
            g == GlbRule(ma, mb, ta, tb)
        IN (r.st # "div" /\ g.rel.st # "div") =>
               /\ SameOutcome(r, g.rel)
               /\ r.st = "err" /\ g.m = "none" => r.val = "mutability"
               /\ r.st = "ok" =>
                      r.val = TBox(g.m, CASE g.ty = "a" -> ta
                                          [] g.ty = "b" -> tb
                                          [] OTHER -> g.rel.val)

\* the arms happen on variables with bounds: a (mut, const) pair that
\* succeeds one way round and fails the other, an imm result over a Glb
\* that is a variable, and a mutability error
C29_Witness ==
    /\ \E ta, tb \in MtTys :
           /\ IsVar(ta) /\ IsSome(BoundsOf(vb, ta[2]).ub) /\ ~IsVar(tb)
           /\ Tys("glb", Cx, TBox("mut", ta), TBox("const", tb)).st = "ok"
    /\ \E ta, tb \in MtTys :
           /\ Tys("glb", Cx, TBox("mut", ta), TBox("const", tb)).st = "ok"
           /\ Tys("glb", Cx, TBox("const", ta), TBox("mut", tb)).st = "err"
    /\ \E ta, tb \in MtTys :
           /\ IsVar(ta) /\ ta # tb
           /\ Tys("glb", Cx, TBox("imm", ta), TBox("const", tb)).st = "ok"
           /\ Tys("glb", Cx, TBox("imm", ta), TBox("const", tb)).val[2] = "imm"
    /\ Tys("glb", Cx, TBox("mut", TInt), TBox("imm", TInt)).st = "err"

-----------------------------------------------------------------------------
(* Sub on regions that are not variables                                    *)

\* the calls of Sub.regions that were made
SubRegionCalls == {i \in 1..Len(hist) : hist[i].op = "sub_regions"}

\* C30: Sub.regions on two regions that are not variables returns ok
\* exactly when Lub.regions(a, b) is b, and the error regions_differ
\* otherwise; a scope is below a scope exactly when the nearest common
\* ancestor of the two is the second; every region is below static, and
\* static is below static only.
C30_SubRegions ==
    \A i \in SubRegionCalls :
        LET e == hist[i]
            l == Regions("lub", FreshCx, e.a, e.b)
        IN /\ (e.st = "ok") <=> (l.st = "ok" /\ l.val = e.b)
           /\ e.st = "err" => e.val = "regions_differ"
           /\ (Kind(e.a) = "scope" /\ Kind(e.b) = "scope") =>
                  ((e.st = "ok") <=> (NearestCommonAncestor(e.a[2], e.b[2]) = Some(e.b[2])))
           /\ e.b = ReStatic => e.st = "ok"
           /\ e.a = ReStatic => ((e.st = "ok") <=> (e.b = ReStatic))
           /\ vb = FreshCx.vb /\ rb = FreshCx.rb

\* an inner scope was found below the scope that encloses it
C30_Witness ==
    \E i \in SubRegionCalls :
        /\ Kind(hist[i].a) = "scope" /\ Kind(hist[i].b) = "scope"
        /\ hist[i].a # hist[i].b
        /\ hist[i].b[2] \in AncestorsOf(hist[i].a[2])
        /\ hist[i].st = "ok"

-----------------------------------------------------------------------------
(* Lub and Glb on regions, on the stores of a session                       *)

\* the scopes that enclose both a and b
CommonAncestors(a, b) == AncestorsOf(a) \cap AncestorsOf(b)

\* the common ancestors that every other common ancestor encloses
Nearest(a, b) == {n \in CommonAncestors(a, b) : CommonAncestors(a, b) \subseteq AncestorsOf(n)}

\* the free region and the scope of a pair made of one of each
FreeOf(a, b) == IF Kind(a) = "free" THEN a ELSE b
ScopeOf(a, b) == IF Kind(a) = "scope" THEN a ELSE b
FreeWithScope(a, b) == {Kind(a), Kind(b)} = {"free", "scope"}

\* the least upper bound of two regions that are not variables
LubExpected(a, b) ==
    CASE a = ReStatic \/ b = ReStatic -> ReStatic
      [] Kind(a) = "scope" /\ Kind(b) = "scope" ->
           IF Nearest(a[2], b[2]) = {} THEN ReStatic
           ELSE ReScope(CHOOSE n \in Nearest(a[2], b[2]) : TRUE)
      [] FreeWithScope(a, b) ->
           IF NearestCommonAncestor(FreeOf(a, b)[2], ScopeOf(a, b)[2]) = Some(FreeOf(a, b)[2])
           THEN FreeOf(a, b) ELSE ReStatic
      [] OTHER -> IF a = b THEN a ELSE ReStatic

\* the region variables handed out so far
RegionVids == 0..(region_var_counter - 1)

\* C31: Lub.regions on two regions that are not variables returns ok with
\* static when one is static, with the scope of the nearest common ancestor
\* (static when there is none) for two scopes, with the free region for a
\* free region and a scope when the nearest common ancestor is the free
\* region's scope (static otherwise), and otherwise with the region when
\* the two are equal and static when not; the stores are left as they
\* were; Lub of static and a variable is static with the stores untouched.
C31_LubRegions ==
    /\ \A a, b \in GroundRegions :
           LET r == Regions("lub", Cx, a, b)
           IN r.st = "ok" /\ r.val = LubExpected(a, b) /\ r.s.rb = rb /\ r.s.vb = vb
    /\ \A v \in RegionVids :
           LET r == Regions("lub", Cx, ReStatic, ReVar(v))
               q == Regions("lub", Cx, ReVar(v), ReStatic)
           IN /\ r.st = "ok" /\ r.val = ReStatic /\ r.s.rb = rb /\ r.s.vb = vb
              /\ q.st = "ok" /\ q.val = ReStatic /\ q.s.rb = rb /\ q.s.vb = vb

\* a region variable holds a bound, Lub of static and it is static, two
\* sibling scopes meet in their parent and two unrelated ones in static
C31_Witness ==
    /\ \E v \in RegionVids :
           /\ rb.vals[v][1] = "bounded"
           /\ Regions("lub", Cx, ReStatic, ReVar(v)).val = ReStatic
    /\ Regions("lub", Cx, ReScope(1), ReScope(3)).val = ReScope(0)
    /\ Regions("lub", Cx, ReScope(1), ReScope(2)).val = ReStatic
    /\ Regions("lub", Cx, ReFree(0, "a"), ReScope(1)).val = ReFree(0, "a")
    /\ Regions("lub", Cx, ReScope(0), ReFree(1, "a")).val = ReStatic

\* the greatest lower bound of two regions that are not variables, none
\* when there is no such region
GlbExpected(a, b) ==
    CASE a = ReStatic -> Some(b)
      [] b = ReStatic -> Some(a)
      [] Kind(a) = "scope" /\ Kind(b) = "scope" ->
           IF a[2] \in AncestorsOf(b[2]) THEN Some(b)
           ELSE IF b[2] \in AncestorsOf(a[2]) THEN Some(a)
           ELSE None
      [] FreeWithScope(a, b) ->
           IF FreeOf(a, b)[2] \in AncestorsOf(ScopeOf(a, b)[2])
           THEN Some(ScopeOf(a, b)) ELSE None
      [] OTHER -> IF a = b THEN Some(a) ELSE None

\* C32: Glb.regions returns the other region when one is static, also when
\* the other is a variable; for two scopes the deeper one when one encloses
\* the other and the error regions_differ when not; for a free region and a
\* scope the scope when the free region's scope encloses it and
\* regions_differ when not; for any other pair of regions that are not
\* variables the region when the two are equal and regions_differ when
\* not.  The stores are left as they were.
C32_GlbRegions ==
    /\ \A a, b \in GroundRegions :
           LET r == Regions("glb", Cx, a, b)
               e == GlbExpected(a, b)
           IN /\ r.s.rb = rb /\ r.s.vb = vb
              /\ IF IsSome(e) THEN r.st = "ok" /\ r.val = Unwrap(e)
                 ELSE r.st = "err" /\ r.val = "regions_differ"
    /\ \A v \in RegionVids :
           LET r == Regions("glb", Cx, ReStatic, ReVar(v))
               q == Regions("glb", Cx, ReVar(v), ReStatic)
           IN /\ r.st = "ok" /\ r.val = ReVar(v) /\ r.s.rb = rb /\ r.s.vb = vb
              /\ q.st = "ok" /\ q.val = ReVar(v) /\ q.s.rb = rb /\ q.s.vb = vb

\* the deeper of two nested scopes was returned, two sibling scopes failed,
\* a free region gave way to a scope inside it, and a variable with a bound
\* met static
C32_Witness ==
    /\ Regions("glb", Cx, ReScope(0), ReScope(1)).st = "ok"
    /\ Regions("glb", Cx, ReScope(0), ReScope(1)).val = ReScope(1)
    /\ Regions("glb", Cx, ReScope(1), ReScope(3)).st = "err"
    /\ Regions("glb", Cx, ReFree(0, "a"), ReScope(3)).st = "ok"
    /\ Regions("glb", Cx, ReFree(0, "a"), ReScope(3)).val = ReScope(3)
    /\ Regions("glb", Cx, ReScope(0), ReFree(1, "a")).st = "err"
    /\ \E v \in RegionVids :
           /\ rb.vals[v][1] = "bounded"
           /\ Regions("glb", Cx, ReVar(v), ReStatic).st = "ok"

-----------------------------------------------------------------------------
(* lattice_var_t and lattice_vars on the stores of a session                *)

\* the calls lattice_tys and lattice_rvars make of lattice_var_t: the
\* combiner, the store, the variable and a type or region that is neither a
\* variable nor caught by an earlier arm
LatticeVarTCalls ==
    {<<C, "vb", v, t>> : C \in {"lub", "glb"}, v \in TyVids, t \in RelatedTys}
        \cup {<<C, "rb", v, r>> : C \in {"lub", "glb"}, v \in RegionVids,
                                  r \in {ReScope(0), ReScope(1)}}

\* the variable of call c holds the bound the combiner reads
HasBnd(c) == IsSome(LBnd(c[1], Get(Cx, c[2], c[3]).bounds))

\* lb <: ub on the bounds of the variable of c with the new bound added
BndCheck(c) ==
    LET g == Get(Cx, c[2], c[3])
        nb == WithBnd(c[1], g.bounds, c[4])
    IN Bnds(g.s, c[2], nb.lb, nb.ub)

MaxLatPosts == 4

LatBounds ==
    {<<TBox(mu, TInt), TVar(i)>> : mu \in {"mut", "imm"}, i \in 0..3}
        \cup {<<TVar(i), TBox("const", TInt)>> : i \in 0..1}
        \cup {<<TBox("mut", TVar(1)), TVar(0)>>, <<TBox("mut", TVar(0)), TVar(1)>>}

PostLatBound ==
    /\ ty_var_counter > 0
    /\ nops < MaxLatPosts
    /\ \E p \in LatBounds : DoMkSubty(p[1], p[2])
    /\ UNCHANGED hist

NextLat ==
    \/ NextNestVars
    \/ PostLatBound

SpecLat == InitNest /\ [][NextLat]_vars

\* try {|| c_ts(a_ty, b_ty)} as lattice_vars runs it on the bounds of a and
\* b; an err when one of the two bounds is missing
Attempt(C, a, b) ==
    LET a_bnd == LBnd(C, BoundsOf(vb, a))
        b_bnd == LBnd(C, BoundsOf(vb, b))
    IN IF IsSome(a_bnd) /\ IsSome(b_bnd)
       THEN Try(AfterGets(a, b), LAMBDA x :
                Call("St", <<C, x, "vb", Unwrap(a_bnd), Unwrap(b_bnd)>>))
       ELSE Err("no_bounds", AfterGets(a, b))

\* C34: lattice_vars on two variables with distinct roots: when both roots
\* hold the relevant bound and combining the two under try succeeds, the
\* result is that combination with the stores it left; when a bound is
\* missing or the attempt fails, the journal is as long as before the
\* attempt, the outcome is that of vars on the two roots, and on success
\* the value is the variable a.
C34_LatticeVars ==
    \A C \in {"lub", "glb"} : \A p \in DistinctRoots :
        LET a == p[1]
            b == p[2]
            t == Attempt(C, a, b)
            r == LatticeVars(C, Cx, "vb", TVar(a), a, b)
        IN /\ t.st = "ok" =>
                  /\ SameOutcome(r, t)
                  /\ r.val = t.val
           /\ t.st = "err" =>
                  LET q == Vars(t.s, "vb", RootOf(vb, a), RootOf(vb, b))
                  IN /\ t.s.vb.bindings = vb.bindings
                     /\ t.s.rb = rb
                     /\ SameOutcome(r, q)
                     /\ r.st = "ok" => r.val = TVar(a)

\* C34 as first stated: whenever the attempt succeeds the two variables
\* still have distinct roots afterwards.
C34_NeverMergedOnSuccess ==
    \A C \in {"lub", "glb"} : \A p \in DistinctRoots :
        LET r == LatticeVars(C, Cx, "vb", TVar(p[1]), p[1], p[2])
        IN Attempt(C, p[1], p[2]).st = "ok" =>
               /\ r.st = "ok"
               /\ RootOf(r.s.vb, p[1]) # RootOf(r.s.vb, p[2])

\* the three cases happened: the bounds were combined and the variables
\* kept their roots, an attempt failed and the variables were merged, and
\* variables without the bound were merged
C34_Witness ==
    /\ \E C \in {"lub", "glb"} : \E p \in DistinctRoots :
           /\ Attempt(C, p[1], p[2]).st = "ok"
           /\ LET r == LatticeVars(C, Cx, "vb", TVar(p[1]), p[1], p[2])
              IN r.st = "ok" /\ RootOf(r.s.vb, p[1]) # RootOf(r.s.vb, p[2])
    /\ \E C \in {"lub", "glb"} : \E p \in DistinctRoots :
           /\ Attempt(C, p[1], p[2]).st = "err"
           /\ IsSome(LBnd(C, BoundsOf(vb, p[1]))) /\ IsSome(LBnd(C, BoundsOf(vb, p[2])))
           /\ LET r == LatticeVars(C, Cx, "vb", TVar(p[1]), p[1], p[2])
              IN r.st = "ok" /\ RootOf(r.s.vb, p[1]) = RootOf(r.s.vb, p[2])
    /\ \E C \in {"lub", "glb"} : \E p \in DistinctRoots :
           /\ ~IsSome(LBnd(C, BoundsOf(vb, p[1])))
           /\ LET r == LatticeVars(C, Cx, "vb", TVar(p[1]), p[1], p[2])
              IN r.st = "ok" /\ RootOf(r.s.vb, p[1]) = RootOf(r.s.vb, p[2])

-----------------------------------------------------------------------------
(* Variance of type parameters, self types and function arguments           *)

\* the types that appear as parameter, self type, argument and output
VarianceTys ==
    {TInt, TBox("imm", TInt), TBox("const", TInt)} \cup TyVarsBelow(ty_var_counter)

IsGround(t) == TyVarsIn(t) = {}

\* a type of kind K ("enum", "iface", "class" or "res") with one parameter
Nominal(K, self_ty, tps) ==
    IF K = "res" THEN TRes(0, TInt, Substs(None, self_ty, tps))
    ELSE <<K, 0, Substs(None, self_ty, tps)>>

\* a function type with one argument
Fn1(arg, out) == TFn("proto_bare", <<Arg("by_ref", arg)>>, out, "return_val", <<>>)

\* the context inside one call of a combiner's tys
Inside == [Cx EXCEPT !.depth = MaxDepth - 1]

\* r is the outcome q with the value v on success
Gives(r, q, v) == SameOutcome(r, q) /\ (r.st = "ok" => r.val = v)

\* the two relations f then g, the second on the stores the first left
Both(q1, q2) == IF q1.st = "ok" THEN q2 ELSE q1

\* C35: under Sub, Lub and Glb two enum, iface, class or resource types
\* with the same id are combined by eq_tys on each pair of type parameters
\* and on the two self types, and the result is the first type; on types
\* without variables that succeeds only for equal parameters.  Sub on two
\* function types is Sub.tys(b_arg, a_arg) followed by Sub.tys(a_out,
\* b_out); Lub on two function types takes Glb.tys of the arguments and
\* Lub.tys of the outputs.
C35_Variance ==
    /\ \A C \in {"sub", "lub", "glb"} : \A K \in {"enum", "iface", "class", "res"} :
       \A ta, tb \in VarianceTys :
           LET a == Nominal(K, None, <<ta>>)
               b == Nominal(K, None, <<tb>>)
               r == Tys(C, Cx, a, b)
           IN /\ Gives(r, EqTys(Inside, ta, tb), a)
              /\ (IsGround(ta) /\ IsGround(tb)) => (r.st = "ok" <=> ta = tb)
    /\ \A C \in {"sub", "lub", "glb"} : \A ta, tb \in VarianceTys :
           LET a == Nominal("iface", Some(ta), <<>>)
               b == Nominal("iface", Some(tb), <<>>)
               n == Nominal("iface", None, <<>>)
           IN /\ Gives(Tys(C, Cx, a, b), EqTys(Inside, ta, tb), a)
              /\ Tys(C, Cx, a, n).st = "err" /\ Tys(C, Cx, n, b).st = "err"
    /\ \A ta, tb \in VarianceTys : \A oa, ob \in {TBox("imm", TInt), TBox("const", TInt)} :
           LET a == Fn1(ta, oa)
               b == Fn1(tb, ob)
               s1 == Tys("sub", Inside, tb, ta)
               s2 == Tys("sub", s1.s, oa, ob)
               g1 == Tys("glb", Inside, ta, tb)
               l2 == Tys("lub", g1.s, oa, ob)
               lub == Tys("lub", Cx, a, b)
           IN /\ SameOutcome(Tys("sub", Cx, a, b), Both(s1, s2))
              /\ SameOutcome(lub, Both(g1, l2))
              /\ lub.st = "ok" => lub.val = Fn1(g1.val, l2.val)

\* a type variable was made equal to int as a parameter; a parameter that
\* is a subtype but not equal was refused; a function taking the wider
\* argument was found below one taking the narrower, and not the reverse
C35_Witness ==
    /\ \E v \in TyVids :
           LET r == Tys("lub", Cx, Nominal("enum", None, <<TVar(v)>>),
                        Nominal("enum", None, <<TInt>>))
           IN /\ vb.vals[v] = Absent
              /\ r.st = "ok"
              /\ BoundsOf(r.s.vb, v) = MkBounds(Some(TInt), Some(TInt))
    /\ Tys("sub", Cx, TBox("imm", TInt), TBox("const", TInt)).st = "ok"
    /\ Tys("sub", Cx, Nominal("class", None, <<TBox("imm", TInt)>>),
           Nominal("class", None, <<TBox("const", TInt)>>)).st = "err"
    /\ Tys("sub", Cx, Fn1(TBox("const", TInt), TBox("imm", TInt)),
           Fn1(TBox("imm", TInt), TBox("imm", TInt))).st = "ok"
    /\ Tys("sub", Cx, Fn1(TBox("imm", TInt), TBox("imm", TInt)),
           Fn1(TBox("const", TInt), TBox("imm", TInt))).st = "err"

-----------------------------------------------------------------------------
(* Sessions over pairs that remember which variables were unified           *)

MaxPermPosts == 4

\* the pairs of variables that have the same root in store b
Unified(b) ==
    {p \in (DOMAIN b.vals) \X (DOMAIN b.vals) : RootOf(b, p[1]) = RootOf(b, p[2])}

\* the pairs that had the same root after some call that returned ok
UnifiedBefore == IF hist = <<>> THEN {} ELSE hist[1]

\* mk_subty on two pairs; the pairs unified by a call that returns ok are
\* added to the ones remembered
PostPermSubty ==
    /\ ty_var_counter > 0
    /\ nops < MaxPermPosts
    /\ \E a, b \in ChainUniverse(ty_var_counter) : DoMkSubty(a, b)
    /\ hist' = IF last'.st = "ok" THEN <<UnifiedBefore \cup Unified(vb')>> ELSE hist

NextPerm ==
    \/ NextTyVars
    \/ PostPermSubty

SpecPerm == InitChain /\ [][NextPerm]_vars

\* C36: two variables that had the same root after a call that returned ok
\* have the same root after every later call that returns ok.
C36_UnificationPermanent ==
    last.st = "ok" => \A p \in UnifiedBefore : RootOf(vb, p[1]) = RootOf(vb, p[2])

RECURSIVE EndsWithin(_, _, _)
\* following the redirects of store b from v reaches, in at most n steps, an
\* entry that is not a redirect
EndsWithin(b, v, n) ==
    IF b.vals[v][1] # "redirect" THEN TRUE
    ELSE IF n = 0 THEN FALSE
    ELSE EndsWithin(b, b.vals[v][2], n - 1)

\* no redirect chain of store b comes back to an entry it has visited
Acyclic(b) == \A v \in DOMAIN b.vals : EndsWithin(b, v, Cardinality(DOMAIN b.vals))

\* C37: in every state, after a call that returned ok and after one that
\* was rolled back, the redirects of the type store and of the region store
\* form no cycle: every chain ends at an entry that is bounded or absent,
\* and get on any variable returns a root whose entry is then bounded.
C37_RedirectsAcyclic ==
    /\ Acyclic(vb)
    /\ Acyclic(rb)
    /\ \A v \in DOMAIN vb.vals :
           LET g == Get(Cx, "vb", v)
           IN g.s.vb.vals[g.root] = Bounded(g.bounds)

\* a call was rolled back and left a chain of two redirects
C37_Witness ==
    /\ last.st = "err"
    /\ \E v \in DOMAIN vb.vals :
           /\ vb.vals[v][1] = "redirect"
           /\ vb.vals[vb.vals[v][2]][1] = "redirect"

-----------------------------------------------------------------------------
(* Sessions of all four entry points around a recorded assignment *)

\* the types posted as bounds and assigned in these sessions
BorrowBoundTys == {TBox("mut", TInt), TRptr(ReScope(1), "const", TInt)}
BorrowSources == {TBox("mut", TInt), TUniq("imm", TInt)}
BorrowTargets(m) == {TRptr(r, "const", TInt) : r \in BorrowRegions(m)}

\* mk_subr between regions
PostMkSubr ==
    /\ nops < MaxBoundPosts
    /\ hist = <<>>
    /\ \E a, b \in {ReStatic} \cup BorrowRegions(region_var_counter) : DoMkSubr(a, b)
    /\ UNCHANGED hist

\* mk_eqty or mk_subty between a variable and a bound type or a variable
PostMkEqty ==
    /\ nops < MaxBoundPosts
    /\ hist = <<>>
    /\ \E v \in TyVarsBelow(ty_var_counter) :
       \E t \in BorrowBoundTys \cup TyVarsBelow(ty_var_counter) :
           DoMkEqty(v, t) \/ DoMkSubty(v, t) \/ DoMkSubty(t, v)
    /\ UNCHANGED hist

\* the mk_assignty that ends the session, recorded
RecBorrow ==
    /\ hist = <<>>
    /\ \E anmnt \in BorrowAssignments :
       \E a \in BorrowSources \cup TyVarsBelow(ty_var_counter) :
       \E b \in BorrowTargets(region_var_counter) \cup TyVarsBelow(ty_var_counter) :
           LET r == MkAssignty(Cx, anmnt, a, b)
           IN /\ Returned("mk_assignty", r)
              /\ hist' = <<[op |-> "mk_assignty", anmnt |-> anmnt, a |-> a, b |-> b,
                            st |-> r.st, val |-> IF r.st = "ok" THEN "unit" ELSE r.val]>>

NextBorrow ==
    \/ NextTyVarId
    \/ NextRegionVarId
    \/ PostMkSubr
    \/ PostMkEqty
    \/ EarlierMkAssignty
    \/ RecBorrow

SpecBorrow == Init /\ [][NextBorrow]_vars

\* C38: a step changes the borrowings map only when it is a mk_assignty
\* that returned ok: a mk_assignty that returned an error (one whose
\* sub_tys(a, nr_b) succeeded before the region requirement failed
\* included) and every mk_subty, mk_eqty and mk_subr leave the map as it
\* was before the call.
C38_BorrowingsFrame ==
    [][/\ borrowings' # borrowings =>
              nops' = nops + 1 /\ last'.op = "mk_assignty" /\ last'.st = "ok"
       /\ (Assigned /\ hist'[1].st = "err") => borrowings' = borrowings]_vars

\* expression 17 had borrowed to scope 0; then a box of mut int was assigned
\* to a borrowed pointer for expression 17 and scope 1: sub_tys(a, nr_b)
\* succeeded, the region requirement failed, the call returned the error,
\* and the map still holds 17 -> 0 only
C38_Witness ==
    /\ hist # <<>>
    /\ hist[1].a = TBox("mut", TInt)
    /\ Kind(hist[1].b) = "rptr"
    /\ hist[1].anmnt = [expr_id |-> 17, borrow_scope |-> 1]
    /\ hist[1].st = "err"
    /\ SubTysU(Cx, hist[1].a, TBox("const", TInt)).st = "ok"
    /\ last.op = "mk_assignty" /\ last.st = "err"
    /\ borrowings = {<<17, 0>>}

-----------------------------------------------------------------------------
(* Resolution as an observer of the stores *)

\* the call that returned r left the journals and what get reports as they
\* are on the context of the session
ReadOnly(r) ==
    r.st \in {"ok", "err"} =>
        /\ r.s.vb.bindings = vb.bindings
        /\ r.s.rb.bindings = rb.bindings
        /\ StoreView(r.s.vb) = StoreView(vb)
        /\ StoreView(r.s.rb) = StoreView(rb)
        /\ r.s.bor = borrowings

\* the types resolved: those of the session, pairs, and every variable
ObservedTys ==
    ResolveInputs \cup ChainUniverse(ty_var_counter)

\* C39: resolve_shallow, resolve_deep and resolve_deep_var, with either
\* value of force_vars and whether they return ok or an error, push nothing
\* onto the journal of the type store or of the region store and leave the
\* root and the bounds that get reports unchanged for every type variable
\* and every region variable (get may compress a redirect chain and insert
\* missing entries while they run).
C39_ResolutionReadOnly ==
    \A f \in BOOLEAN :
        /\ \A t \in ObservedTys :
               /\ ReadOnly(ResolveShallow(Cx, t, f))
               /\ ReadOnly(ResolveDeep(Cx, t, f))
        /\ \A v \in 0..(ty_var_counter - 1) :
               ReadOnly(ResolveDeepVar(Cx, v, f))

\* there is a chain of two redirects from a variable v; resolve_deep_var(v)
\* returns an error with force_vars and ok without, and both calls leave
\* the type store with an entry that differs from before
C39_Witness ==
    \E v \in 0..(ty_var_counter - 1) :
        /\ vb.vals[v][1] = "redirect"
        /\ vb.vals[vb.vals[v][2]][1] = "redirect"
        /\ LET r == ResolveDeepVar(Cx, v, TRUE)
               q == ResolveDeepVar(Cx, v, FALSE)
           IN /\ r.st = "err" /\ q.st = "ok"
              /\ r.s.vb.vals # vb.vals
              /\ q.s.vb.vals # vb.vals

-----------------------------------------------------------------------------
(* Fresh variables: sessions that record every id handed out, by a plain    *)
(* call or inside a commit that goes on to constrain the new variable       *)

NumFreshVars == 2

\* a next_ty_var_id that leaves the counter as it is
NextTyVarIdStale(counter) == [id |-> counter, counter |-> counter]

\* next_ty_var_id, as a function of the counter
NextTyVarIdOf(counter) == [id |-> counter, counter |-> counter + 1]

\* next_region_var_id, as a function of the counter
NextRegionVarIdOf(counter) == [id |-> counter, counter |-> counter + 1]

InitFresh ==
    /\ vb = NewVb(NumFreshVars)
    /\ rb = NewVb(NumFreshVars)
    /\ ty_var_counter = 0
    /\ region_var_counter = 0
    /\ borrowings = {}
    /\ last = [op |-> "new_infer_ctxt", st |-> "ok", val |-> "unit"]
    /\ nops = 0
    /\ hist = <<>>

\* the session may hand out another id
MayAllocate(counter) == counter < NumFreshVars /\ Len(hist) < 2 * NumFreshVars

\* next_ty_var_id called outside any try
FreshTyVarId ==
    /\ MayAllocate(ty_var_counter)
    /\ LET n == NextTyVarIdOf(ty_var_counter)
       IN /\ ty_var_counter' = n.counter
          /\ hist' = Append(hist, <<"ty", n.id, "plain">>)
    /\ UNCHANGED <<vb, rb, region_var_counter, borrowings, last, nops>>

\* next_region_var_id called outside any try
FreshRegionVarId ==
    /\ MayAllocate(region_var_counter)
    /\ LET n == NextRegionVarIdOf(region_var_counter)
       IN /\ region_var_counter' = n.counter
          /\ hist' = Append(hist, <<"region", n.id, "plain">>)
    /\ UNCHANGED <<vb, rb, ty_var_counter, borrowings, last, nops>>

\* the types and regions a new variable is constrained by
FreshTys == {TInt, TBool} \cup TyVarsBelow(ty_var_counter)
FreshRegions == {ReStatic, ReScope(0), ReScope(1)} \cup RegionVarsBelow(region_var_counter)

\* commit {|| let v = next_ty_var(); sub_tys(v, t).then {|| sub_tys(u, v) } }
FreshTyVarInCommit ==
    /\ MayAllocate(ty_var_counter)
    /\ \E t, u \in FreshTys :
           LET n == NextTyVarIdOf(ty_var_counter)
               r == Commit(Cx, LAMBDA x:
                        Chain(Tys("sub", x, TVar(n.id), t), LAMBDA r1:
                              Tys("sub", r1.s, u, TVar(n.id))))
           IN /\ r.st \in {"ok", "err"}
              /\ vb' = r.s.vb /\ rb' = r.s.rb /\ borrowings' = r.s.bor
              /\ last' = [op |-> "commit", st |-> r.st,
                          val |-> IF r.st = "ok" THEN "unit" ELSE r.val]
              /\ nops' = nops + 1
              /\ ty_var_counter' = n.counter
              /\ hist' = Append(hist, <<"ty", n.id, r.st>>)
    /\ UNCHANGED region_var_counter

\* commit {|| let r = next_region_var(); sub_regions(r, a).then {||
\*     sub_regions(b, r) } }
FreshRegionVarInCommit ==
    /\ MayAllocate(region_var_counter)
    /\ \E a, b \in FreshRegions :
           LET n == NextRegionVarIdOf(region_var_counter)
               r == Commit(Cx, LAMBDA x:
                        Chain(Regions("sub", x, ReVar(n.id), a), LAMBDA r1:
                              Regions("sub", r1.s, b, ReVar(n.id))))
           IN /\ r.st \in {"ok", "err"}
              /\ vb' = r.s.vb /\ rb' = r.s.rb /\ borrowings' = r.s.bor
              /\ last' = [op |-> "commit", st |-> r.st,
                          val |-> IF r.st = "ok" THEN "unit" ELSE r.val]
              /\ nops' = nops + 1
              /\ region_var_counter' = n.counter
              /\ hist' = Append(hist, <<"region", n.id, r.st>>)
    /\ UNCHANGED ty_var_counter

NextFresh ==
    \/ FreshTyVarId
    \/ FreshRegionVarId
    \/ FreshTyVarInCommit
    \/ FreshRegionVarInCommit

SpecFresh == InitFresh /\ [][NextFresh]_vars

\* the context with the missing entry of v in store k written out as a root
\* without bounds
Materialised(k, v) == [Cx EXCEPT ![k].vals[v] = Bounded(EmptyBounds)]

\* what a call returned and the stores it left, a missing entry being read
\* as a root without bounds
Left(r) ==
    [st |-> r.st, val |-> r.val, bor |-> r.s.bor,
     vb |-> WithMissingEntries(r.s.vb), vbj |-> r.s.vb.bindings,
     rb |-> WithMissingEntries(r.s.rb), rbj |-> r.s.rb.bindings]

\* C40: the ids handed out of one kind are strictly increasing in the
\* order they were handed out, hence distinct, whether the call was made
\* outside a try, inside a commit that succeeded or inside one that failed
\* and was rolled back; each counter is the number of ids of its kind
\* handed out; and a variable whose entry is missing behaves as a root
\* with bounds (none, none): get returns it as its own root with no bounds,
\* and constraining it gives the result and the stores that the written-out
\* entry gives (the entry itself may still be missing afterwards).
C40_FreshVariables ==
    /\ \A i, j \in DOMAIN hist :
           (i < j /\ hist[i][1] = hist[j][1]) => hist[i][2] < hist[j][2]
    /\ ty_var_counter = Cardinality({i \in DOMAIN hist : hist[i][1] = "ty"})
    /\ region_var_counter = Cardinality({i \in DOMAIN hist : hist[i][1] = "region"})
    /\ \A v \in DOMAIN vb.vals :
           vb.vals[v] = Absent =>
               /\ Get(Cx, "vb", v).root = v
               /\ Get(Cx, "vb", v).bounds = EmptyBounds
               /\ Get(Cx, "vb", v).s = Materialised("vb", v)
               /\ \A t \in FreshTys :
                      /\ Left(MkSubty(Cx, TVar(v), t))
                             = Left(MkSubty(Materialised("vb", v), TVar(v), t))
                      /\ Left(MkSubty(Cx, t, TVar(v)))
                             = Left(MkSubty(Materialised("vb", v), t, TVar(v)))
    /\ \A v \in DOMAIN rb.vals :
           rb.vals[v] = Absent =>
               /\ Get(Cx, "rb", v).root = v
               /\ Get(Cx, "rb", v).bounds = EmptyBounds
               /\ \A a \in FreshRegions :
                      /\ Left(MkSubr(Cx, ReVar(v), a))
                             = Left(MkSubr(Materialised("rb", v), ReVar(v), a))
                      /\ Left(MkSubr(Cx, a, ReVar(v)))
                             = Left(MkSubr(Materialised("rb", v), a, ReVar(v)))

\* type variable 0 was handed out inside a commit that failed, type
\* variable 1 after it by a plain call, and it has not been accessed; a
\* region id was handed out inside a commit that failed and another after
\* it
C40_Witness ==
    /\ \E i, k \in DOMAIN hist :
           /\ i < k
           /\ hist[i] = <<"ty", 0, "err">>
           /\ hist[k] = <<"ty", 1, "plain">>
    /\ \E i, k \in DOMAIN hist :
           /\ i < k
           /\ hist[i] = <<"region", 0, "err">>
           /\ hist[k][1] = "region"
    /\ vb.vals[1] = Absent
    /\ vb.vals[0] # Absent

====
